---- MODULE Spec2Model ----
(***************************************************************************)
(* State-machine model of the ICT trading engine of BinanceBot/trade.py    *)
(* (class ICTTraderClient): the candle window, the higher-timeframe bias,  *)
(* the fair-value-gap (FVG) list, the entry candidates and the position    *)
(* slot with its trade history.                                            *)
(*                                                                         *)
(* Prices are integers in units of 0.1 (1000 stands for 100.0, 1002 for    *)
(* 100.2).  Every derived quantity (stop loss, take profit, risk, trailing *)
(* stop, gap size) is an exact rational <<n, d>> in lowest terms, d > 0;   *)
(* the code's float rounding is not modelled.  Timestamps are seconds.     *)
(***************************************************************************)
EXTENDS Integers, Sequences, FiniteSets, TLC

(***************************************************************************)
(* Bounds of the model.                                                    *)
(***************************************************************************)
\* number of candles the lower-timeframe feed delivers in one run
MaxCandles == 5
\* length of the lower-timeframe window (df_length; 100 in the scripts)
WindowLen == 4
\* number of trades opened in one run
MaxTrades == 2

(***************************************************************************)
(* Exact rational arithmetic for the float expressions of the code.        *)
(***************************************************************************)
Abs(x) == IF x < 0 THEN -x ELSE x

RECURSIVE GCD(_, _)
GCD(a, b) == IF b = 0 THEN a ELSE GCD(b, a % b)

Rat(n, d) ==
    LET g == GCD(Abs(n), d)
    IN  <<n \div g, d \div g>>

RInt(k) == <<k, 1>>

RAdd(a, b) == Rat(a[1] * b[2] + b[1] * a[2], a[2] * b[2])

RSub(a, b) == Rat(a[1] * b[2] - b[1] * a[2], a[2] * b[2])

RMul(a, b) ==
    LET g1 == GCD(Abs(a[1]), b[2])
        g2 == GCD(Abs(b[1]), a[2])
    IN  Rat((a[1] \div g1) * (b[1] \div g2), (a[2] \div g2) * (b[2] \div g1))

\* a / b for b > 0
RDiv(a, b) == RMul(a, <<b[2], b[1]>>)

RAbs(a) == <<Abs(a[1]), a[2]>>

\* sign of an/ad - bn/bd for nonnegative fractions, by their continued
\* fractions (no product is formed, so nothing overflows)
RECURSIVE CmpPos(_, _, _, _)
CmpPos(an, ad, bn, bd) ==
    LET qa == an \div ad
        qb == bn \div bd
        ra == an % ad
        rb == bn % bd
    IN  IF qa # qb THEN (IF qa < qb THEN -1 ELSE 1)
        ELSE IF ra = 0 /\ rb = 0 THEN 0
        ELSE IF ra = 0 THEN -1
        ELSE IF rb = 0 THEN 1
        ELSE CmpPos(bd, rb, ad, ra)

RCmp(a, b) ==
    IF a[1] >= 0 /\ b[1] >= 0 THEN CmpPos(a[1], a[2], b[1], b[2])
    ELSE IF a[1] < 0 /\ b[1] >= 0 THEN -1
    ELSE IF a[1] >= 0 /\ b[1] < 0 THEN 1
    ELSE CmpPos(-b[1], b[2], -a[1], a[2])

RLt(a, b) == RCmp(a, b) < 0
RLe(a, b) == RCmp(a, b) <= 0
RGt(a, b) == RCmp(a, b) > 0
RGe(a, b) == RCmp(a, b) >= 0

SetMax(S) == CHOOSE x \in S : \A y \in S : y <= x
SetMin(S) == CHOOSE x \in S : \A y \in S : x <= y

(***************************************************************************)
(* Configuration of the client (ICTTraderClient.__init__ and the scripts). *)
(***************************************************************************)
\* rr_ratio = 2.0
rr_ratio == RInt(2)
\* trail_stop = 0.8
trail_stop == Rat(8, 10)
\* trail_stop_enabled = True
trail_stop_enabled == TRUE
\* interval = "5m": the number and the unit suffix of the interval string
interval == [n |-> 5, unit |-> "m"]
\* min_fvg_size = 0.0005, the default of __init__ and of --min-fvg-size
DefaultMinFvgSize == Rat(5, 10000)
\* the settings of min_fvg_size the gap detector is tried with
MinFvgSizes == {DefaultMinFvgSize, Rat(1, 1000), Rat(2, 1000), Rat(3, 1000)}

get_interval_seconds ==
    IF interval.unit = "m" THEN interval.n * 60
    ELSE IF interval.unit = "h" THEN interval.n * 60 * 60
    ELSE IF interval.unit = "d" THEN interval.n * 60 * 60 * 24
    ELSE 60

\* the age, in seconds, from which update_active_fvgs drops a filled FVG
FvgMaxAgeSeconds == 20 * 60 * get_interval_seconds

(***************************************************************************)
(* The candle feed: what the exchange can deliver.                         *)
(***************************************************************************)
Levels == {990, 1000, 1002, 1006, 1008, 1014}

Flat(p) == [high |-> p, low |-> p, close |-> p]

\* a malformed candle: high < low
Malformed == [high |-> 1000, low |-> 1002, close |-> 1002]

CandleShapes == {Flat(p) : p \in Levels} \cup {Malformed}

IsMalformed(c) == c.high < c.low

\* a higher-timeframe window of 17 candles whose highs and lows are flat
\* except at the 0-based rows 5 and 11 (and row 6 when plateau is set)
HtfTape(h5, h11, l5, l11, plateau) ==
    [i \in 1..17 |->
        [high |-> IF i = 6 THEN h5
                  ELSE IF i = 12 THEN h11
                  ELSE IF i = 7 /\ plateau THEN h5
                  ELSE 1004,
         low  |-> IF i = 6 THEN l5
                  ELSE IF i = 12 THEN l11
                  ELSE 1000]]

HtfBullish == HtfTape(1008, 1014, 990, 996, FALSE)
HtfBearish == HtfTape(1014, 1008, 996, 990, FALSE)
HtfPlateau == HtfTape(1008, 1008, 990, 996, TRUE)

HtfWindows == {HtfBullish, HtfBearish, HtfPlateau}

(***************************************************************************)
(* State of one ICTTraderClient.                                           *)
(***************************************************************************)
VARIABLES
    df,             \* lower-timeframe window: Seq of [t, high, low, close]
    htf_df,         \* higher-timeframe window: Seq of [high, low]
    min_fvg_size,   \* configured minimum gap size
    htf_bias,       \* "Neutral", "Bullish", "Bearish", "Consolidation", "Expansion"
    active_fvgs,    \* Seq of FVG records
    valid_entries,  \* Seq of entry candidates
    position_open,
    position_type,  \* "None", "long", "short"
    entry_price,
    stop_loss,
    take_profit,
    risk_amount,
    trade_history,  \* Seq of trade records
    fed,            \* candles delivered so far by the feed
    exec,           \* outcome of the order placed by the last call, if it
                    \* was a manager() call that placed one
    frame           \* the sweep row and kind of the frame a recorded direct
                    \* detect_fair_value_gaps call has just been given

(***************************************************************************)
(* State of one EnhancedICTStrategyClient, as far as its liquidity-sweep   *)
(* detection reads and writes it.                                          *)
(***************************************************************************)
VARIABLES
    ltf_df,         \* lower-timeframe frame: Seq of [t, open, high, low, close]
    daily_bias,     \* "None", "bullish", "bearish", "neutral"
    last_liquidity_sweep,   \* NoSweep or [type, price, candle_index, time]
    enhanced_htf_bias,      \* its htf_bias: "None", "bullish", "bearish", "neutral"
    enhanced_active_fvgs,   \* its active_fvgs: Seq of [type, top, bottom, age,
                            \* created_at]
    enhanced_fed            \* candles delivered to it after the first fetch

(***************************************************************************)
(* State of the multi-pair runner: the module globals, the trader objects  *)
(* its threads have constructed, and the locals of each thread.            *)
(***************************************************************************)
VARIABLES
    traders,        \* the dict traders: pair -> trader object, or NoTrader
    pair_status,    \* the dict pair_status: pair -> status record
    trader_lock,    \* "free" or the thread holding the lock
    objects,        \* trader object -> its engine state, or Unallocated
    run_trader,     \* locals of each run_trader thread: pc, trader,
                    \* initialization_attempts
    bot_status_updater      \* locals of the status thread: pc, visited pairs

client_vars == <<df, htf_df, min_fvg_size, htf_bias, active_fvgs, valid_entries,
                 position_open, position_type, entry_price, stop_loss, take_profit,
                 risk_amount, trade_history, fed, exec, frame>>

enhanced_vars == <<ltf_df, daily_bias, last_liquidity_sweep, enhanced_htf_bias,
                   enhanced_active_fvgs, enhanced_fed>>

\* the part of it that the sweep detection on its own leaves alone
enhanced_fvg_vars == <<enhanced_htf_bias, enhanced_active_fvgs, enhanced_fed>>

runner_vars == <<traders, pair_status, trader_lock, objects, run_trader,
                 bot_status_updater>>

\* the unified trader (unified_trader.py with dashboard.py)
VARIABLES
    bot_status,             \* dashboard.bot_status: [is_running]
    unified_run_trader,     \* pair -> where its run_trader thread stands
    unified_updates,        \* pair -> trader.update() calls of its loop
    toggles,                \* /api/toggle requests served
    main_thread             \* "running", "shutting_down" or "exited"

unified_vars == <<bot_status, unified_run_trader, unified_updates, toggles,
                  main_thread>>

\* TradingBot (src/trading_bot.py)
VARIABLES
    bot_lock,               \* self._lock: "free" or the thread that holds it
    thread_at,              \* thread -> the statement it stands at
    positions,              \* symbols of self.positions
    current_prices          \* symbols with a cached price

trading_bot_vars == <<bot_lock, thread_at, positions, current_prices>>

\* APILogHandler (src/api_logger.py)
VARIABLES
    logs,                   \* self.logs: Seq of [id, category, status], oldest first
    emitted,                \* records stored so far (the id of the last one)
    returned                \* the last get_logs call: [category, status, limit, result]

api_logger_vars == <<logs, emitted, returned>>

\* analyze_market_structure_ict (src/ict_strategy.py)
VARIABLES
    ict_input,              \* the inputs of the last analysis
    ict_result              \* the dictionary it returned

ict_vars == <<ict_input, ict_result>>

\* the standalone BinanceClient (BinanceBot/standalone_client.py)
VARIABLES
    position,               \* self.position: -1 after __init__, 1 (True) once opened
    position_price,         \* self.position_price: NoAttribute or <<price>>
    trades,                 \* backtest_loop's trades: Seq of "buy" / "sell"
    equity,                 \* self.equity of the backtest
    backtest_row,           \* the row before the one examined next
    backtest_rows,          \* rows examined so far
    backtest_status         \* "running" or "raised"

standalone_vars == <<position, position_price, trades, equity, backtest_row,
                     backtest_rows, backtest_status>>

\* what the actions of one part of the model leave alone: the state of the
\* other parts
beyond_client == <<enhanced_vars, runner_vars, unified_vars, trading_bot_vars, api_logger_vars, ict_vars, standalone_vars>>

beyond_enhanced == <<client_vars, runner_vars, unified_vars, trading_bot_vars, api_logger_vars, ict_vars, standalone_vars>>

beyond_runner == <<client_vars, enhanced_vars, unified_vars, trading_bot_vars, api_logger_vars, ict_vars, standalone_vars>>

beyond_unified == <<client_vars, enhanced_vars, runner_vars, trading_bot_vars, api_logger_vars, ict_vars, standalone_vars>>

beyond_trading_bot == <<client_vars, enhanced_vars, runner_vars, unified_vars, api_logger_vars, ict_vars, standalone_vars>>

beyond_api_logger == <<client_vars, enhanced_vars, runner_vars, unified_vars, trading_bot_vars, ict_vars, standalone_vars>>

beyond_ict == <<client_vars, enhanced_vars, runner_vars, unified_vars, trading_bot_vars, api_logger_vars, standalone_vars>>

beyond_standalone == <<client_vars, enhanced_vars, runner_vars, unified_vars, trading_bot_vars, api_logger_vars, ict_vars>>

vars == <<client_vars, enhanced_vars, runner_vars, unified_vars, trading_bot_vars, api_logger_vars, ict_vars, standalone_vars>>

Zero == RInt(0)

(***************************************************************************)
(* calculate_swings: row i (1-based here, i-1 in the code) is a swing high *)
(* when it lies in range(window, len - window) and its high equals the     *)
(* maximum of the highs of rows i-window .. i+window.                      *)
(***************************************************************************)
\* calculate_swings with the window clipped to the rows there are, instead of
\* leaving out the rows nearer than window to either end
calculate_swings_Clipped(d, window) ==
    [i \in 1..Len(d) |->
        [swing_high |-> d[i].high = SetMax({d[j].high :
                            j \in {k \in (i - window)..(i + window) : k >= 1 /\ k <= Len(d)}}),
         swing_low  |-> d[i].low = SetMin({d[j].low :
                            j \in {k \in (i - window)..(i + window) : k >= 1 /\ k <= Len(d)}})]]

calculate_swings(d, window) ==
    [i \in 1..Len(d) |->
        LET inRange == (i - 1 >= window) /\ (i - 1 < Len(d) - window)
        IN  [swing_high |-> inRange /\
                 d[i].high = SetMax({d[j].high : j \in (i - window)..(i + window)}),
             swing_low  |-> inRange /\
                 d[i].low = SetMin({d[j].low : j \in (i - window)..(i + window)})]]

(***************************************************************************)
(* determine_market_structure: the bias from the swings of the last 20     *)
(* rows.                                                                   *)
(***************************************************************************)
\* the first of the last 20 rows (recent_df = df.iloc[-20:])
RecentFrom(d) == IF Len(d) > 20 THEN Len(d) - 19 ELSE 1

\* the highs of the rows from k on that are recent swing highs
RECURSIVE SwingHighs(_, _, _)
SwingHighs(d, swings, k) ==
    IF k > Len(d) THEN <<>>
    ELSE IF k >= RecentFrom(d) /\ swings[k].swing_high
         THEN <<d[k].high>> \o SwingHighs(d, swings, k + 1)
         ELSE SwingHighs(d, swings, k + 1)

\* the lows of the rows from k on that are recent swing lows
RECURSIVE SwingLows(_, _, _)
SwingLows(d, swings, k) ==
    IF k > Len(d) THEN <<>>
    ELSE IF k >= RecentFrom(d) /\ swings[k].swing_low
         THEN <<d[k].low>> \o SwingLows(d, swings, k + 1)
         ELSE SwingLows(d, swings, k + 1)

\* StructureOf with the names of the two mixed structures exchanged
StructureOf_MixedSwapped(swing_highs, swing_lows) ==
    LET nh == Len(swing_highs)
        nl == Len(swing_lows)
    IN  IF nh < 2 \/ nl < 2 THEN "Neutral"
        ELSE IF swing_highs[nh] > swing_highs[nh - 1] /\ swing_lows[nl] > swing_lows[nl - 1]
             THEN "Bullish"
        ELSE IF swing_highs[nh] < swing_highs[nh - 1] /\ swing_lows[nl] < swing_lows[nl - 1]
             THEN "Bearish"
        ELSE IF swing_highs[nh] < swing_highs[nh - 1] /\ swing_lows[nl] > swing_lows[nl - 1]
             THEN "Expansion"
        ELSE IF swing_highs[nh] > swing_highs[nh - 1] /\ swing_lows[nl] < swing_lows[nl - 1]
             THEN "Consolidation"
        ELSE "Neutral"

StructureOf(swing_highs, swing_lows) ==
    LET nh == Len(swing_highs)
        nl == Len(swing_lows)
    IN  IF nh < 2 \/ nl < 2 THEN "Neutral"
        ELSE IF swing_highs[nh] > swing_highs[nh - 1] /\ swing_lows[nl] > swing_lows[nl - 1]
             THEN "Bullish"
        ELSE IF swing_highs[nh] < swing_highs[nh - 1] /\ swing_lows[nl] < swing_lows[nl - 1]
             THEN "Bearish"
        ELSE IF swing_highs[nh] < swing_highs[nh - 1] /\ swing_lows[nl] > swing_lows[nl - 1]
             THEN "Consolidation"
        ELSE IF swing_highs[nh] > swing_highs[nh - 1] /\ swing_lows[nl] < swing_lows[nl - 1]
             THEN "Expansion"
        ELSE "Neutral"

determine_market_structure(d, swings) ==
    StructureOf(SwingHighs(d, swings, 1), SwingLows(d, swings, 1))

\* the bias of each window the higher-timeframe feed delivers
HtfBiasOf ==
    [hd \in HtfWindows |-> determine_market_structure(hd, calculate_swings(hd, 5))]

\* process_htf_data: without higher-timeframe data the bias is left alone
process_htf_data(hd, bias) ==
    IF hd = <<>> THEN bias
    ELSE IF hd \in HtfWindows THEN HtfBiasOf[hd]
    ELSE determine_market_structure(hd, calculate_swings(hd, 5))

(***************************************************************************)
(* detect_liquidity_sweeps: the sweep columns of a frame.  Row j is a      *)
(* bullish sweep when row j-1 is a swing low (window 3), the low of j is   *)
(* below the low of j-1 and row j+1 closes above row j (i = j+1 runs over  *)
(* range(4, len) in the code).                                             *)
(***************************************************************************)
SweepsOf(d, swings) ==
    [j \in 1..Len(d) |->
        [liquidity_sweep_low |-> j >= 4 /\ j + 1 <= Len(d)
             /\ swings[j - 1].swing_low
             /\ d[j].low < d[j - 1].low /\ d[j + 1].close > d[j].close,
         liquidity_sweep_high |-> j >= 4 /\ j + 1 <= Len(d)
             /\ swings[j - 1].swing_high
             /\ d[j].high > d[j - 1].high /\ d[j + 1].close < d[j].close]]

detect_liquidity_sweeps(d) == SweepsOf(d, calculate_swings(d, 3))

(***************************************************************************)
(* detect_fair_value_gaps: rows k = 4 .. len (i = 3 .. len-1 in the code), *)
(* in order; sw holds the sweep columns of the frame.  A gap above a       *)
(* bullish sweep two rows back, or below a bearish one, is appended when   *)
(* its size reaches the minimum and no FVG with its created_time is        *)
(* tracked yet.                                                            *)
(***************************************************************************)
Tracked(fvgs, t) == \E n \in 1..Len(fvgs) : fvgs[n].created_time = t

BullishFvg(d, k) ==
    [type |-> "bullish", created_time |-> d[k].t,
     low |-> d[k - 2].high, high |-> d[k].low,
     size |-> Rat(d[k].low - d[k - 2].high, d[k - 2].high),
     filled |-> FALSE, retested |-> FALSE]

\* BearishFvg with its bounds exchanged
BearishFvgBoundsSwapped(d, k) ==
    [type |-> "bearish", created_time |-> d[k].t,
     low |-> d[k - 2].low, high |-> d[k].high,
     size |-> Rat(d[k - 2].low - d[k].high, d[k - 2].low),
     filled |-> FALSE, retested |-> FALSE]

BearishFvg(d, k) ==
    [type |-> "bearish", created_time |-> d[k].t,
     low |-> d[k].high, high |-> d[k - 2].low,
     size |-> Rat(d[k - 2].low - d[k].high, d[k - 2].low),
     filled |-> FALSE, retested |-> FALSE]

\* SizeAccepted with the boundary left out
SizeAcceptedStrict(fvg_size, m) == RGt(fvg_size, m)

SizeAccepted(fvg_size, m) == RGe(fvg_size, m)

AddBullish(d, sw, k, fvgs, m) ==
    IF sw[k - 2].liquidity_sweep_low /\ d[k].low > d[k - 2].high
       /\ SizeAccepted(BullishFvg(d, k).size, m)
       /\ ~Tracked(fvgs, d[k].t)
    THEN Append(fvgs, BullishFvg(d, k))
    ELSE fvgs

AddBearish(d, sw, k, fvgs, m) ==
    IF sw[k - 2].liquidity_sweep_high /\ d[k].high < d[k - 2].low
       /\ SizeAccepted(BearishFvg(d, k).size, m)
       /\ ~Tracked(fvgs, d[k].t)
    THEN Append(fvgs, BearishFvg(d, k))
    ELSE fvgs

RECURSIVE DetectFrom(_, _, _, _, _)
DetectFrom(k, d, sw, fvgs, m) ==
    IF k > Len(d) THEN fvgs
    ELSE DetectFrom(k + 1, d, sw,
                    AddBearish(d, sw, k, AddBullish(d, sw, k, fvgs, m), m), m)

detect_fair_value_gaps(d, sw, fvgs, m) == DetectFrom(4, d, sw, fvgs, m)

(***************************************************************************)
(* update_active_fvgs: mark the FVGs the last candle fills, then keep the  *)
(* FVGs that are unfilled or younger than FvgMaxAgeSeconds.                *)
(***************************************************************************)
MarkFilled(f, last) ==
    IF f.filled THEN f
    ELSE IF f.type = "bullish" /\ last.low <= f.low THEN [f EXCEPT !.filled = TRUE]
    ELSE IF f.type = "bearish" /\ last.high >= f.high THEN [f EXCEPT !.filled = TRUE]
    ELSE f

KeepFvg(f, current_time) ==
    ~f.filled \/ (current_time - f.created_time) < FvgMaxAgeSeconds

RECURSIVE SelectFvgs(_, _)
SelectFvgs(fvgs, current_time) ==
    IF fvgs = <<>> THEN <<>>
    ELSE IF KeepFvg(Head(fvgs), current_time)
         THEN <<Head(fvgs)>> \o SelectFvgs(Tail(fvgs), current_time)
         ELSE SelectFvgs(Tail(fvgs), current_time)

update_active_fvgs(d, fvgs) ==
    IF fvgs = <<>> THEN fvgs
    ELSE LET last == d[Len(d)]
             marked == [n \in 1..Len(fvgs) |-> MarkFilled(fvgs[n], last)]
         IN  SelectFvgs(marked, last.t)

(***************************************************************************)
(* check_fvg_retests: returns [fvgs, entries].  Nothing happens without    *)
(* FVGs or with a position open; otherwise the candidates are rebuilt from *)
(* the unfilled, non-retested FVGs the last close lies in, each such FVG   *)
(* is marked retested, and the candidates are sorted by reward/risk.       *)
(***************************************************************************)
\* Retests without the test of the retested flag
Retests_AlsoRetested(f, bias, current_price) ==
    /\ ~f.filled
    /\ \/ f.type = "bullish" /\ bias # "Bearish"
       \/ f.type = "bearish" /\ bias # "Bullish"
    /\ current_price <= f.high
    /\ current_price >= f.low

Retests(f, bias, current_price) ==
    /\ ~f.filled
    /\ ~f.retested
    /\ \/ f.type = "bullish" /\ bias # "Bearish"
       \/ f.type = "bearish" /\ bias # "Bullish"
    /\ current_price <= f.high
    /\ current_price >= f.low

LongEntry(entry, stop, risk, created) ==
    [type |-> "long", entry_price |-> entry, stop_loss |-> stop,
     take_profit |-> RAdd(entry, RMul(risk, rr_ratio)),
     risk_amount |-> risk, fvg |-> created]

\* ShortEntry with the target on the stop's side of the entry
ShortEntry_TargetAbove(entry, stop, risk, created) ==
    [type |-> "short", entry_price |-> entry, stop_loss |-> stop,
     take_profit |-> RAdd(entry, RMul(risk, rr_ratio)),
     risk_amount |-> risk, fvg |-> created]

ShortEntry(entry, stop, risk, created) ==
    [type |-> "short", entry_price |-> entry, stop_loss |-> stop,
     take_profit |-> RSub(entry, RMul(risk, rr_ratio)),
     risk_amount |-> risk, fvg |-> created]

\* entry at the close, stop 0.4 % beyond the far edge of the FVG
EntryWithStop(f, entry, stop) ==
    IF f.type = "bullish"
    THEN LongEntry(entry, stop, RSub(entry, stop), f.created_time)
    ELSE ShortEntry(entry, stop, RSub(stop, entry), f.created_time)

EntryOf(f, current_price) ==
    EntryWithStop(f, RInt(current_price),
                  IF f.type = "bullish"
                  THEN RMul(RInt(f.low), Rat(996, 1000))
                  ELSE RMul(RInt(f.high), Rat(1004, 1000)))

\* the sort key: |take_profit - entry_price| / |stop_loss - entry_price|
RewardRisk(e) ==
    RDiv(RAbs(RSub(e.take_profit, e.entry_price)),
         RAbs(RSub(e.stop_loss, e.entry_price)))

\* list.sort(key, reverse=True): stable, highest key first
RECURSIVE InsertEntry(_, _)
InsertEntry(sorted, e) ==
    IF sorted = <<>> THEN <<e>>
    ELSE IF RGt(RewardRisk(e), RewardRisk(Head(sorted)))
         THEN <<e>> \o sorted
         ELSE <<Head(sorted)>> \o InsertEntry(Tail(sorted), e)

RECURSIVE SortEntries(_)
SortEntries(es) ==
    IF es = <<>> THEN <<>>
    ELSE InsertEntry(SortEntries(SubSeq(es, 1, Len(es) - 1)), es[Len(es)])

RECURSIVE EntriesOf(_, _, _)
EntriesOf(fvgs, bias, current_price) ==
    IF fvgs = <<>> THEN <<>>
    ELSE IF Retests(Head(fvgs), bias, current_price)
         THEN <<EntryOf(Head(fvgs), current_price)>>
              \o EntriesOf(Tail(fvgs), bias, current_price)
         ELSE EntriesOf(Tail(fvgs), bias, current_price)

\* check_fvg_retests without the early return on an open position
check_fvg_retests_InPosition(d, fvgs, bias, open, entries) ==
    IF fvgs = <<>> THEN [fvgs |-> fvgs, entries |-> entries]
    ELSE LET current_price == d[Len(d)].close
         IN  [fvgs |-> [n \in 1..Len(fvgs) |->
                          IF Retests(fvgs[n], bias, current_price)
                          THEN [fvgs[n] EXCEPT !.retested = TRUE]
                          ELSE fvgs[n]],
              entries |-> SortEntries(EntriesOf(fvgs, bias, current_price))]

check_fvg_retests(d, fvgs, bias, open, entries) ==
    IF fvgs = <<>> \/ open THEN [fvgs |-> fvgs, entries |-> entries]
    ELSE LET current_price == d[Len(d)].close
         IN  [fvgs |-> [n \in 1..Len(fvgs) |->
                          IF Retests(fvgs[n], bias, current_price)
                          THEN [fvgs[n] EXCEPT !.retested = TRUE]
                          ELSE fvgs[n]],
              entries |-> SortEntries(EntriesOf(fvgs, bias, current_price))]

(***************************************************************************)
(* process_ltf_data and data_process: the pipeline over the client's own   *)
(* window.  Returns [bias, fvgs, entries].                                 *)
(***************************************************************************)
process_ltf_data(d, fvgs, bias, open, entries, m) ==
    IF d = <<>> THEN [fvgs |-> fvgs, entries |-> entries]
    ELSE check_fvg_retests(
             d,
             update_active_fvgs(
                 d, detect_fair_value_gaps(d, detect_liquidity_sweeps(d), fvgs, m)),
             bias, open, entries)

WithBias(newBias, ltf) ==
    [bias |-> newBias, fvgs |-> ltf.fvgs, entries |-> ltf.entries]

ProcessUnderBias(d, fvgs, newBias, open, entries, m) ==
    WithBias(newBias, process_ltf_data(d, fvgs, newBias, open, entries, m))

data_process(d, hd, fvgs, bias, open, entries, m) ==
    ProcessUnderBias(d, fvgs, process_htf_data(hd, bias), open, entries, m)

(***************************************************************************)
(* trade_buy and trade_sell over the position slot                         *)
(* ps = [position_open, position_type, trade_history].  order is the       *)
(* outcome of super().trade_buy() / super().trade_sell(), whose class is   *)
(* not part of the sources: the order is filled, the call raises (the      *)
(* except clause then leaves the slot as it was), or the call returns a    *)
(* failure without raising (the return value is not looked at, so the slot *)
(* is updated as for a fill).                                              *)
(***************************************************************************)
OrderOutcomes == {"filled", "raised", "refused"}

\* OpenRecord with the record closed from the start
OpenRecord_Closed(type, entry, stop, target, risk) ==
    [type |-> type, entry_price |-> entry, stop_loss |-> stop,
     take_profit |-> target, risk_amount |-> risk,
     status |-> "closed", exit_price |-> Zero, profit_pct |-> Zero]

OpenRecord(type, entry, stop, target, risk) ==
    [type |-> type, entry_price |-> entry, stop_loss |-> stop,
     take_profit |-> target, risk_amount |-> risk,
     status |-> "none", exit_price |-> Zero, profit_pct |-> Zero]

\* CloseLast writing no exit data
CloseLast_NoExitData(history, exit_price, profit_pct) == history

CloseLast(history, exit_price, profit_pct) ==
    IF history = <<>> THEN history
    ELSE [history EXCEPT ![Len(history)] =
             [@ EXCEPT !.status = "closed", !.exit_price = exit_price,
                       !.profit_pct = profit_pct]]

trade_buy(ps, d, entry, stop, target, risk, order) ==
    IF ps.position_open /\ ps.position_type = "short"
    THEN IF order = "raised" THEN ps
         ELSE LET exit_price == RInt(d[Len(d)].close)
                  profit_pct == RMul(RDiv(RSub(entry, exit_price), entry), RInt(100))
              IN  [position_open |-> FALSE, position_type |-> "None",
                   trade_history |-> CloseLast(ps.trade_history, exit_price, profit_pct)]
    ELSE IF order = "raised" THEN ps
         ELSE [position_open |-> TRUE, position_type |-> "long",
               trade_history |-> Append(ps.trade_history,
                                        OpenRecord("long", entry, stop, target, risk))]

trade_sell(ps, d, entry, stop, target, risk, order) ==
    IF ps.position_open /\ ps.position_type = "long"
    THEN IF order = "raised" THEN ps
         ELSE LET exit_price == RInt(d[Len(d)].close)
                  profit_pct == RMul(RDiv(RSub(exit_price, entry), entry), RInt(100))
              IN  [position_open |-> FALSE, position_type |-> "None",
                   trade_history |-> CloseLast(ps.trade_history, exit_price, profit_pct)]
    ELSE IF order = "raised" THEN ps
         ELSE [position_open |-> TRUE, position_type |-> "short",
               trade_history |-> Append(ps.trade_history,
                                        OpenRecord("short", entry, stop, target, risk))]

(***************************************************************************)
(* The trailing stop of manager(): the stop moves to                       *)
(* current_price * (1 -/+ trail_stop * risk_amount / entry_price) when     *)
(* the price is beyond the entry and the new stop is tighter.              *)
(***************************************************************************)
\* TrailLong moving the stop whether or not the new stop is tighter
TrailLongUnguarded(current_price, stop, entry, risk) ==
    IF trail_stop_enabled
    THEN RMul(RInt(current_price),
              RSub(RInt(1), RMul(trail_stop, RDiv(risk, entry))))
    ELSE stop

TrailLong(current_price, stop, entry, risk) ==
    IF trail_stop_enabled /\ RGt(RInt(current_price), entry)
    THEN LET trail_stop_price ==
                 RMul(RInt(current_price),
                      RSub(RInt(1), RMul(trail_stop, RDiv(risk, entry))))
         IN  IF RGt(trail_stop_price, stop) THEN trail_stop_price ELSE stop
    ELSE stop

TrailShort(current_price, stop, entry, risk) ==
    IF trail_stop_enabled /\ RLt(RInt(current_price), entry)
    THEN LET trail_stop_price ==
                 RMul(RInt(current_price),
                      RAdd(RInt(1), RMul(trail_stop, RDiv(risk, entry))))
         IN  IF RLt(trail_stop_price, stop) THEN trail_stop_price ELSE stop
    ELSE stop

(***************************************************************************)
(* EnhancedICTStrategyClient.detect_liquidity_sweeps: on a frame longer    *)
(* than liquidity_lookback, the lows and highs of the last five candles    *)
(* are compared with the extremes of the rows iloc[-lookback:-5] before    *)
(* them; a sweep in the direction of the daily bias replaces               *)
(* last_liquidity_sweep.  Rows are 1-based here; candle_index keeps the    *)
(* code's 0-based value.                                                   *)
(***************************************************************************)
\* self.liquidity_lookback = 20
liquidity_lookback == 20

NoSweep == <<>>

\* df.tail(n)
TailRows(d, n) == (IF Len(d) > n THEN Len(d) - n + 1 ELSE 1)..Len(d)

\* the lookback rows with the last five candles left in
LookbackRows_WithTail(d) == (Len(d) - liquidity_lookback + 1)..Len(d)

\* df.iloc[-lookback:-5]
LookbackRows(d) == (Len(d) - liquidity_lookback + 1)..(Len(d) - 5)

MinLow(d, rows) == SetMin({d[i].low : i \in rows})

MaxHigh(d, rows) == SetMax({d[i].high : i \in rows})

SweepRecord(type, price, d) ==
    [type |-> type, price |-> price, candle_index |-> Len(d) - 1,
     time |-> d[Len(d)].t]

\* any(recent_candles['low'] < recent_low * 0.999)
SweptLow(d, recent_low) ==
    \E i \in TailRows(d, 5) : d[i].low * 1000 < recent_low * 999

\* any(recent_candles['high'] > recent_high * 1.001)
SweptHigh(d, recent_high) ==
    \E i \in TailRows(d, 5) : d[i].high * 1000 > recent_high * 1001

SweepAgainst(d, bias, last, recent_low, recent_high) ==
    IF /\ SweptLow(d, recent_low)
       /\ d[Len(d)].close > d[Len(d)].open
       /\ bias = "bullish"
    THEN SweepRecord("bullish", recent_low, d)
    ELSE IF /\ SweptHigh(d, recent_high)
            /\ d[Len(d)].close < d[Len(d)].open
            /\ bias = "bearish"
         THEN SweepRecord("bearish", recent_high, d)
         ELSE last

\* the value of last_liquidity_sweep after detect_liquidity_sweeps(d)
EnhancedDetectLiquiditySweeps(d, bias, last) ==
    IF Len(d) <= liquidity_lookback THEN last
    ELSE SweepAgainst(d, bias, last, MinLow(d, LookbackRows(d)),
                      MaxHigh(d, LookbackRows(d)))

\* process_daily_data: the bias from the last daily close and its EMAs
process_daily_data(current_price, ema20, ema50) ==
    IF current_price > ema20 /\ current_price > ema50 THEN "bullish"
    ELSE IF current_price < ema20 /\ current_price < ema50 THEN "bearish"
    ELSE "neutral"

(***************************************************************************)
(* EnhancedICTStrategyClient.detect_fair_value_gaps and update_active_fvgs *)
(* as process_ltf_data calls them after the sweep detection.  The sweep's  *)
(* candle_index is a 0-based position in the frame: the candles read are   *)
(* the rows candle_index + 1, + 2 and + 3 here.                            *)
(***************************************************************************)
\* self.fvg_lookback = 5
fvg_lookback == 5

\* candle 2 is a strong candle in the direction of the sweep: body > 0.1 %
BullishDisplacement(candle2) ==
    /\ candle2.close > candle2.open
    /\ (candle2.close - candle2.open) * 1000 > candle2.open

BearishDisplacement(candle2) ==
    /\ candle2.close < candle2.open
    /\ (candle2.open - candle2.close) * 1000 > candle2.open

EnhancedFvg(type, top, bottom, candle3) ==
    [type |-> type, top |-> top, bottom |-> bottom, age |-> 0,
     created_at |-> candle3.t]

\* the FVG list after the three candles from the sweep candle on were read
EnhancedFvgFrom(type, candle1, candle2, candle3, fvgs) ==
    IF /\ type = "bullish"
       /\ BullishDisplacement(candle2)
       /\ candle3.low > candle1.high
       /\ (candle3.low - candle1.high) * 1000 > candle1.high
    THEN Append(fvgs, EnhancedFvg("bullish", candle3.low, candle1.high, candle3))
    ELSE IF /\ type = "bearish"
            /\ BearishDisplacement(candle2)
            /\ candle3.high < candle1.low
            /\ (candle1.low - candle3.high) * 1000 > candle1.low
         THEN Append(fvgs, EnhancedFvg("bearish", candle1.low, candle3.high, candle3))
         ELSE fvgs

\* the FVG list after detect_fair_value_gaps(d)
EnhancedDetectFairValueGaps(d, sweep, fvgs) ==
    IF sweep = NoSweep THEN fvgs
    ELSE IF Len(d) < sweep.candle_index + 3 THEN fvgs
    ELSE EnhancedFvgFrom(sweep.type, d[sweep.candle_index + 1],
                         d[sweep.candle_index + 2], d[sweep.candle_index + 3], fvgs)

\* an FVG one update older stays unless it has expired or the close has
\* gone through it
EnhancedFvgStays(f, current_price) ==
    /\ f.age + 1 <= fvg_lookback
    /\ ~(f.type = "bullish" /\ current_price < f.bottom)
    /\ ~(f.type = "bearish" /\ current_price > f.top)

RECURSIVE EnhancedUpdateActiveFvgs(_, _)
EnhancedUpdateActiveFvgs(fvgs, current_price) ==
    IF fvgs = <<>> THEN <<>>
    ELSE IF EnhancedFvgStays(Head(fvgs), current_price)
         THEN <<[Head(fvgs) EXCEPT !.age = @ + 1]>>
              \o EnhancedUpdateActiveFvgs(Tail(fvgs), current_price)
         ELSE EnhancedUpdateActiveFvgs(Tail(fvgs), current_price)

EnhancedAfterSweeps(d, sweep, fvgs) ==
    [sweep |-> sweep,
     fvgs |-> EnhancedUpdateActiveFvgs(EnhancedDetectFairValueGaps(d, sweep, fvgs),
                                       d[Len(d)].close)]

\* process_ltf_data of the enhanced client: nothing unless the daily and the
\* higher-timeframe bias agree on a direction.  Returns [sweep, fvgs].
EnhancedProcessLtfData(d, daily, htf, sweep, fvgs) ==
    IF daily # htf \/ daily = "neutral" THEN [sweep |-> sweep, fvgs |-> fvgs]
    ELSE EnhancedAfterSweeps(d, EnhancedDetectLiquiditySweeps(d, daily, sweep), fvgs)

InitEnhanced ==
    /\ ltf_df = <<>>
    /\ daily_bias = "None"
    /\ last_liquidity_sweep = NoSweep
    /\ enhanced_htf_bias = "None"
    /\ enhanced_active_fvgs = <<>>
    /\ enhanced_fed = 0

(***************************************************************************)
(* The multi-pair runner before main() has started a thread.               *)
(***************************************************************************)
Pairs == {"BTCUSDT", "ETHUSDT"}

Objects == {"trader1", "trader2"}

NoTrader == "None"

Unallocated == [allocated |-> FALSE]

NoStatus == <<>>

InitRunner ==
    /\ traders = [pair \in Pairs |-> NoTrader]
    /\ pair_status = [pair \in Pairs |-> NoStatus]
    /\ trader_lock = "free"
    /\ objects = [o \in Objects |-> Unallocated]
    /\ run_trader = [pair \in Pairs |->
                        [pc |-> "start", trader |-> NoTrader,
                         initialization_attempts |-> 0]]
    /\ bot_status_updater = [pc |-> "collect", visited |-> {}]

(***************************************************************************)
(* Initial state: the client after __init__, configured by its script.     *)
(***************************************************************************)
(***************************************************************************)
(* The unified trader after main() has published is_running = True and     *)
(* every run_trader thread has created, initialized and stored its trader: *)
(* each thread stands at the test of its trading loop.                     *)
(***************************************************************************)
InitUnified ==
    /\ bot_status = [is_running |-> TRUE]
    /\ unified_run_trader = [pair \in Pairs |-> "while"]
    /\ unified_updates = [pair \in Pairs |-> 0]
    /\ toggles = 0
    /\ main_thread = "running"

(***************************************************************************)
(* TradingBot after start(): the bot thread is about to simulate its       *)
(* initial positions, the price-update thread and the dashboard's request  *)
(* thread are idle, and the lock made by threading.Lock() is free.         *)
(***************************************************************************)
Threads == {"bot", "prices", "api"}

InitTradingBot ==
    /\ bot_lock = "free"
    /\ thread_at = [thread \in Threads |-> IF thread = "bot" THEN "start" ELSE "idle"]
    /\ positions = {}
    /\ current_prices = {}

\* APILogHandler.__init__: an empty deque; no get_logs call yet
NoCall == <<>>

InitApiLogger ==
    /\ logs = <<>>
    /\ emitted = 0
    /\ returned = NoCall

\* no analysis has run
NoAnalysis == <<>>

InitIct ==
    /\ ict_input = NoAnalysis
    /\ ict_result = NoAnalysis

(***************************************************************************)
(* The standalone BinanceClient right after __init__, when backtest_loop   *)
(* has reset position_data and the equity and stands before row 50:        *)
(* __init__ sets position to -1 and creates no position_price attribute,   *)
(* reset_position only rewrites position_data.                             *)
(***************************************************************************)
NoAttribute == <<>>

InitStandalone ==
    /\ position = -1
    /\ position_price = NoAttribute
    /\ trades = <<>>
    /\ equity = <<1000>>
    /\ backtest_row = [sma_20 |-> 1, sma_50 |-> 1, close |-> 100]
    /\ backtest_rows = 0
    /\ backtest_status = "running"

NoFrame == <<>>

Init ==
    /\ df = <<>>
    /\ htf_df = <<>>
    /\ min_fvg_size = DefaultMinFvgSize
    /\ htf_bias = "Neutral"
    /\ active_fvgs = <<>>
    /\ valid_entries = <<>>
    /\ position_open = FALSE
    /\ position_type = "None"
    /\ entry_price = Zero
    /\ stop_loss = Zero
    /\ take_profit = Zero
    /\ risk_amount = Zero
    /\ trade_history = <<>>
    /\ fed = 0
    /\ exec = "none"
    /\ frame = NoFrame
    /\ InitEnhanced
    /\ InitRunner
    /\ InitStandalone
    /\ InitIct
    /\ InitApiLogger
    /\ InitTradingBot
    /\ InitUnified

(***************************************************************************)
(* The base client's update(): the candle feed.  It either delivers one    *)
(* new closed candle, which slides the window, or the window it delivered  *)
(* before.                                                                 *)
(***************************************************************************)
SlideWindow(d, c) ==
    IF Len(d) < WindowLen THEN Append(d, c)
    ELSE Append(SubSeq(d, 2, Len(d)), c)

NextCandle(d, shape, bars) ==
    [t |-> IF d = <<>> THEN 0 ELSE d[Len(d)].t + bars * get_interval_seconds,
     high |-> shape.high, low |-> shape.low, close |-> shape.close]

(***************************************************************************)
(* update(): base update, update_htf_data, data_process.                   *)
(***************************************************************************)
UpdateWith(newDf, newHtf) ==
    \E r \in {data_process(newDf, newHtf, active_fvgs, htf_bias, position_open,
                           valid_entries, min_fvg_size)} :
        /\ df' = newDf
        /\ htf_df' = newHtf
        /\ htf_bias' = r.bias
        /\ active_fvgs' = r.fvgs
        /\ valid_entries' = r.entries
        /\ exec' = "none"
        /\ UNCHANGED <<min_fvg_size, position_open, position_type, entry_price,
                       stop_loss, take_profit, risk_amount, trade_history, frame,
                       beyond_client>>

UpdateNewCandle ==
    /\ fed < MaxCandles
    /\ \E shape \in CandleShapes, newHtf \in HtfWindows :
          \E newDf \in {SlideWindow(df, NextCandle(df, shape, 1))} :
              UpdateWith(newDf, newHtf)
    /\ fed' = fed + 1

UpdateSameWindow ==
    /\ df # <<>>
    /\ UpdateWith(df, htf_df)
    /\ UNCHANGED fed

(***************************************************************************)
(* manager(): with a position open, take profit, trail the stop, stop out; *)
(* without one, run data_process and enter on the first candidate.         *)
(* order is the outcome of the order the call places, if it places one.    *)
(***************************************************************************)
Slot == [position_open |-> position_open, position_type |-> position_type,
         trade_history |-> trade_history]

SetSlot(ps) ==
    \E slot \in {ps} :
        /\ position_open' = slot.position_open
        /\ position_type' = slot.position_type
        /\ trade_history' = slot.trade_history

ManagerLong(order) ==
    \E current_price \in {df[Len(df)].close} :
        IF RGe(RInt(current_price), take_profit)
        THEN /\ SetSlot(trade_sell(Slot, df, entry_price, stop_loss, take_profit,
                                   risk_amount, order))
             /\ exec' = IF order = "filled" THEN "exit_ok" ELSE "exit_failed"
             /\ UNCHANGED stop_loss
        ELSE \E trailed \in {TrailLong(current_price, stop_loss, entry_price,
                                       risk_amount)} :
             /\ stop_loss' = trailed
             /\ IF RLe(RInt(current_price), trailed)
                THEN /\ SetSlot(trade_sell(Slot, df, entry_price, trailed, take_profit,
                                           risk_amount, order))
                     /\ exec' = IF order = "filled" THEN "exit_ok" ELSE "exit_failed"
                ELSE /\ SetSlot(Slot)
                     /\ exec' = "none"

ManagerShort(order) ==
    \E current_price \in {df[Len(df)].close} :
        IF RLe(RInt(current_price), take_profit)
        THEN /\ SetSlot(trade_buy(Slot, df, entry_price, stop_loss, take_profit,
                                  risk_amount, order))
             /\ exec' = IF order = "filled" THEN "exit_ok" ELSE "exit_failed"
             /\ UNCHANGED stop_loss
        ELSE \E trailed \in {TrailShort(current_price, stop_loss, entry_price,
                                        risk_amount)} :
             /\ stop_loss' = trailed
             /\ IF RGe(RInt(current_price), trailed)
                THEN /\ SetSlot(trade_buy(Slot, df, entry_price, trailed, take_profit,
                                          risk_amount, order))
                     /\ exec' = IF order = "filled" THEN "exit_ok" ELSE "exit_failed"
                ELSE /\ SetSlot(Slot)
                     /\ exec' = "none"

ManagerInPosition(order) ==
    /\ position_open
    /\ IF position_type = "long" THEN ManagerLong(order)
       ELSE IF position_type = "short" THEN ManagerShort(order)
       ELSE /\ SetSlot(Slot)
            /\ exec' = "none"
            /\ UNCHANGED stop_loss
    /\ UNCHANGED <<htf_bias, active_fvgs, valid_entries, entry_price, take_profit,
                   risk_amount>>

\* the entry of manager()'s no-position branch on the candidate best_entry
EnterOn(best_entry, order) ==
    /\ entry_price' = best_entry.entry_price
    /\ stop_loss' = best_entry.stop_loss
    /\ take_profit' = best_entry.take_profit
    /\ risk_amount' = best_entry.risk_amount
    /\ \E ps \in {[position_open |-> position_open,
                   position_type |-> best_entry.type,
                   trade_history |-> trade_history]} :
          SetSlot(IF best_entry.type = "long"
                  THEN trade_buy(ps, df, best_entry.entry_price, best_entry.stop_loss,
                                 best_entry.take_profit, best_entry.risk_amount, order)
                  ELSE trade_sell(ps, df, best_entry.entry_price, best_entry.stop_loss,
                                  best_entry.take_profit, best_entry.risk_amount, order))
    /\ exec' = IF order = "filled" THEN "entry_ok" ELSE "entry_failed"

ManagerNoPosition(order) ==
    /\ ~position_open
    /\ Len(trade_history) < MaxTrades
    /\ \E r \in {data_process(df, htf_df, active_fvgs, htf_bias, position_open,
                              valid_entries, min_fvg_size)} :
           /\ htf_bias' = r.bias
           /\ active_fvgs' = r.fvgs
           /\ valid_entries' = r.entries
           /\ IF r.entries # <<>>
              THEN \E best_entry \in {r.entries[1]} : EnterOn(best_entry, order)
              ELSE /\ SetSlot(Slot)
                   /\ exec' = "none"
                   /\ UNCHANGED <<entry_price, stop_loss, take_profit, risk_amount>>

Manager ==
    \E order \in OrderOutcomes :
        /\ ManagerInPosition(order) \/ ManagerNoPosition(order)
        /\ UNCHANGED <<df, htf_df, min_fvg_size, fed, frame, beyond_client>>

(***************************************************************************)
(* A direct call of detect_fair_value_gaps on the client's window with     *)
(* sweep columns supplied by the caller: one sweep row of one kind, among  *)
(* the rows the loop reads (i-2 for i in range(3, len)).                   *)
(***************************************************************************)
SweepColumns(d, row, kind) ==
    [j \in 1..Len(d) |->
        [liquidity_sweep_low  |-> j = row /\ kind = "low",
         liquidity_sweep_high |-> j = row /\ kind = "high"]]

DetectWith(row, kind) ==
    /\ active_fvgs' = detect_fair_value_gaps(df, SweepColumns(df, row, kind),
                                             active_fvgs, min_fvg_size)
    /\ exec' = "none"
    /\ UNCHANGED <<df, htf_df, min_fvg_size, htf_bias, valid_entries, position_open,
                   position_type, entry_price, stop_loss, take_profit, risk_amount,
                   trade_history, fed, beyond_client>>

DetectCall ==
    /\ \E row \in 2..(Len(df) - 2), kind \in {"low", "high"} : DetectWith(row, kind)
    /\ UNCHANGED frame

Next ==
    \/ UpdateNewCandle
    \/ UpdateSameWindow
    \/ Manager
    \/ DetectCall

Spec == Init /\ [][Next]_vars

(***************************************************************************)
(* The gap detector on its own: detect_fair_value_gaps applied, with each  *)
(* setting of min_fvg_size, to every full window of the feed's candles and *)
(* every sweep row and kind; the call records the sweep it was given.      *)
(***************************************************************************)
RECURSIVE WindowsOf(_)
WindowsOf(n) ==
    IF n = 0 THEN {<<>>}
    ELSE {Append(d, NextCandle(d, shape, 1)) : d \in WindowsOf(n - 1), shape \in CandleShapes}

InitDetect ==
    /\ df \in WindowsOf(WindowLen)
    /\ htf_df = <<>>
    /\ min_fvg_size \in MinFvgSizes
    /\ htf_bias = "Neutral"
    /\ active_fvgs = <<>>
    /\ valid_entries = <<>>
    /\ position_open = FALSE
    /\ position_type = "None"
    /\ entry_price = Zero
    /\ stop_loss = Zero
    /\ take_profit = Zero
    /\ risk_amount = Zero
    /\ trade_history = <<>>
    /\ fed = WindowLen
    /\ exec = "none"
    /\ frame = NoFrame
    /\ InitEnhanced
    /\ InitRunner
    /\ InitStandalone
    /\ InitIct
    /\ InitApiLogger
    /\ InitTradingBot
    /\ InitUnified

DetectRecorded ==
    \E row \in 2..(Len(df) - 2), kind \in {"low", "high"} :
        /\ DetectWith(row, kind)
        /\ frame' = [row |-> row, kind |-> kind]

NextDetect == DetectRecorded

SpecDetect == InitDetect /\ [][NextDetect]_vars

(***************************************************************************)
(* The higher-timeframe pipeline on its own: update_htf_data replaces      *)
(* htf_df by the klines the exchange returns and process_htf_data sets the *)
(* bias from them.  The klines are rising ramps of HtfLengths rows with a  *)
(* peak and a trough at each of two rows.                                  *)
(***************************************************************************)
HtfLengths == {3, 10, 12, 17, 23, 27}
HtfPeakRows == {<<6, 12>>, <<6, 22>>, <<16, 22>>}
HtfPeaks == {1130, 1140}
HtfTroughs == {960, 970}

HtfRamp(n, rows, h1, h2, l1, l2) ==
    [i \in 1..n |->
        [high |-> IF i = rows[1] THEN h1 ELSE IF i = rows[2] THEN h2 ELSE 1100 + i,
         low  |-> IF i = rows[1] THEN l1 ELSE IF i = rows[2] THEN l2 ELSE 1000 + i]]

HtfRamps ==
    {HtfRamp(n, rows, h1, h2, l1, l2) :
        n \in HtfLengths, rows \in HtfPeakRows,
        h1 \in HtfPeaks, h2 \in HtfPeaks, l1 \in HtfTroughs, l2 \in HtfTroughs}

UpdateHtfData ==
    /\ \E hd \in HtfRamps :
          /\ htf_df' = hd
          /\ htf_bias' = process_htf_data(hd, htf_bias)
    /\ UNCHANGED <<df, min_fvg_size, active_fvgs, valid_entries, position_open,
                   position_type, entry_price, stop_loss, take_profit, risk_amount,
                   trade_history, fed, exec, frame, beyond_client>>

NextHtf == UpdateHtfData

SpecHtf == Init /\ [][NextHtf]_vars

(***************************************************************************)
(* The client under a feed with a gap: the last candle of the run can open *)
(* GapBars intervals after the one before it, the higher-timeframe window  *)
(* being the one delivered before.                                         *)
(***************************************************************************)
GapBars == {20, 1200}

UpdateAfterGap ==
    /\ fed = MaxCandles - 1
    /\ df # <<>>
    /\ \E shape \in CandleShapes, bars \in GapBars :
          \E newDf \in {SlideWindow(df, NextCandle(df, shape, bars))} :
              UpdateWith(newDf, htf_df)
    /\ fed' = fed + 1

NextGap ==
    \/ UpdateNewCandle
    \/ UpdateAfterGap
    \/ Manager
    \/ DetectCall

SpecGap == Init /\ [][NextGap]_vars

(***************************************************************************)
(* The sweep detection of the enhanced client on its own:                  *)
(* process_daily_data sets the daily bias and detect_liquidity_sweeps is   *)
(* called on a frame.  The frames have SweepLengths rows; the lookback     *)
(* rows hold lows of 1010 and highs of 1990 with the extremes 1000 and     *)
(* 2000 in their last row, one of the last five candles dips to dip and    *)
(* pokes to poke, and, if old, row 1 holds a more extreme low and high.    *)
(***************************************************************************)
SweepLengths == {20, 21, 25}
SweepDips == {998, 999, 1000}
SweepPokes == {2001, 2002, 2003}
\* open and close of the latest candle
SweepCloses == {<<1400, 1500>>, <<1500, 1400>>, <<1500, 1500>>}
DailyLevels == {1400, 1500, 1600}

SweepFrame(n, dip, poke, last, at, old) ==
    [i \in 1..n |->
        [t     |-> i - 1,
         open  |-> IF i = n THEN last[1] ELSE 1500,
         close |-> IF i = n THEN last[2] ELSE 1500,
         low   |-> IF i = n - at THEN dip
                   ELSE IF i = 1 /\ old THEN 900
                   ELSE IF i = n - 5 THEN 1000 ELSE 1010,
         high  |-> IF i = n - at THEN poke
                   ELSE IF i = 1 /\ old THEN 2100
                   ELSE IF i = n - 5 THEN 2000 ELSE 1990]]

SweepFrames ==
    {SweepFrame(n, dip, poke, last, at, old) :
        n \in SweepLengths, dip \in SweepDips, poke \in SweepPokes,
        last \in SweepCloses, at \in {0, 4}, old \in BOOLEAN}

ProcessDailyData ==
    /\ \E current_price \in DailyLevels, ema20 \in DailyLevels, ema50 \in DailyLevels :
          daily_bias' = process_daily_data(current_price, ema20, ema50)
    /\ UNCHANGED <<ltf_df, last_liquidity_sweep, enhanced_fvg_vars, beyond_enhanced>>

DetectSweepsCall ==
    /\ \E d \in SweepFrames :
          /\ ltf_df' = d
          /\ last_liquidity_sweep'
                = EnhancedDetectLiquiditySweeps(d, daily_bias, last_liquidity_sweep)
    /\ UNCHANGED <<daily_bias, enhanced_fvg_vars, beyond_enhanced>>

NextSweep ==
    \/ ProcessDailyData
    \/ DetectSweepsCall

SpecSweep == Init /\ [][NextSweep]_vars

(***************************************************************************)
(* update() of the enhanced client: the base client delivers the           *)
(* lower-timeframe window, then data_process sets the daily and the        *)
(* higher-timeframe bias and runs process_ltf_data.  The first fetch       *)
(* delivers a frame of 21 or of EnhancedWindowLen rows; later fetches add  *)
(* one candle, and a window of EnhancedWindowLen rows slides.              *)
(***************************************************************************)
\* rows of the fetched window (ltf_df_length; 100 in the code)
EnhancedWindowLen == 25

\* candles delivered after the first fetch
MaxEnhancedCandles == 3

EnhancedFirstFrames ==
    {SweepFrame(n, 998, 2003, last, at, FALSE) :
        n \in {21, EnhancedWindowLen}, last \in SweepCloses, at \in {0, 4}}

\* a quiet candle, an up and a down displacement candle, and a candle above
\* and one below the range of the frames
EnhancedCandles ==
    {[open |-> 1500, close |-> 1500, low |-> 1010, high |-> 1990],
     [open |-> 1500, close |-> 1510, low |-> 1500, high |-> 1990],
     [open |-> 1500, close |-> 1490, low |-> 1010, high |-> 1500],
     [open |-> 1996, close |-> 1998, low |-> 1995, high |-> 2000],
     [open |-> 1004, close |-> 1002, low |-> 1000, high |-> 1005]}

EnhancedBiases == {"bullish", "bearish"}

EnhancedSlide(d, c) ==
    IF Len(d) < EnhancedWindowLen THEN Append(d, c)
    ELSE Append(SubSeq(d, 2, Len(d)), c)

EnhancedNextCandle(d, shape) ==
    [t |-> d[Len(d)].t + 1, open |-> shape.open, close |-> shape.close,
     low |-> shape.low, high |-> shape.high]

EnhancedUpdateWith(d) ==
    \E current_price \in DailyLevels, htf \in EnhancedBiases :
        \E daily \in {process_daily_data(current_price, 1500, 1500)} :
            \E r \in {EnhancedProcessLtfData(d, daily, htf, last_liquidity_sweep,
                                             enhanced_active_fvgs)} :
                /\ ltf_df' = d
                /\ daily_bias' = daily
                /\ enhanced_htf_bias' = htf
                /\ last_liquidity_sweep' = r.sweep
                /\ enhanced_active_fvgs' = r.fvgs
                /\ UNCHANGED beyond_enhanced

EnhancedFirstUpdate ==
    /\ ltf_df = <<>>
    /\ \E d \in EnhancedFirstFrames : EnhancedUpdateWith(d)
    /\ UNCHANGED enhanced_fed

EnhancedUpdate ==
    /\ ltf_df # <<>>
    /\ enhanced_fed < MaxEnhancedCandles
    /\ \E shape \in EnhancedCandles :
          EnhancedUpdateWith(EnhancedSlide(ltf_df, EnhancedNextCandle(ltf_df, shape)))
    /\ enhanced_fed' = enhanced_fed + 1

NextEnhanced ==
    \/ EnhancedFirstUpdate
    \/ EnhancedUpdate

SpecEnhanced == Init /\ [][NextEnhanced]_vars

(***************************************************************************)
(* The multi-pair runner: main() starts one run_trader thread per pair and *)
(* the bot_status_updater thread.  A trader object is kept here by what    *)
(* its engine has written: the number of FVGs and of candidates, a stop    *)
(* level (0 unset, 1 initial, 2 trailed) and the status of each trade      *)
(* record.  The engine calls are given by every outcome they can write.    *)
(***************************************************************************)
\* max_attempts = 3
max_attempts == 3

\* trades one trader object records here
MaxRunnerTrades == 1

\* the constructor handing every thread the same object
ICTTraderClient_Shared(objs) == "trader1"

\* ICTTraderClient(key.key, key.secret): an object no thread holds yet
ICTTraderClient(objs) == CHOOSE o \in Objects : objs[o] = Unallocated

\* the object after __init__ and the attribute assignments of run_trader
NewTrader ==
    [initialized |-> FALSE, position_open |-> FALSE, position_type |-> "None",
     stop_loss |-> 0, active_fvgs |-> 0, valid_entries |-> 0,
     trade_history |-> <<>>]

\* data_process on a trader: the FVG list is rewritten, and
\* check_fvg_retests rebuilds the candidates unless there is no FVG or a
\* position is open
DataProcessOutcomes(t) ==
    {[t EXCEPT !.active_fvgs = f,
               !.valid_entries = IF f = 0 \/ t.position_open THEN @ ELSE e] :
        f \in 0..1, e \in 0..1}

\* manager() with a position open: hold, trail the stop, or close
InPositionOutcomes(t) ==
    {t, [t EXCEPT !.stop_loss = 2],
     [t EXCEPT !.position_open = FALSE, !.position_type = "None",
               !.trade_history[Len(t.trade_history)] = "closed"]}

\* manager() without a position: data_process, then the entry on the first
\* candidate, taken here to be a long one
EntryOutcomes(t) ==
    IF t.valid_entries = 0 \/ Len(t.trade_history) >= MaxRunnerTrades THEN {t}
    ELSE {[t EXCEPT !.position_open = TRUE, !.position_type = "long",
                    !.stop_loss = 1,
                    !.trade_history = Append(@, "open")]}

ManagerOutcomes(t) ==
    IF t.position_open THEN InPositionOutcomes(t)
    ELSE UNION {EntryOutcomes(u) : u \in DataProcessOutcomes(t)}

\* the status record bot_status_updater builds from a trader, of which the
\* position flag is kept
StatusOf(t) == [position_open |-> t.position_open]

\* trader = ICTTraderClient(...) and its attribute assignments
CreateTrader(pair) ==
    /\ run_trader[pair].pc = "start"
    /\ \E o \in {ICTTraderClient(objects)} :
          /\ objects' = [objects EXCEPT ![o] = NewTrader]
          /\ run_trader' = [run_trader EXCEPT ![pair].trader = o,
                                              ![pair].pc = "register"]
    /\ UNCHANGED <<traders, pair_status, trader_lock, bot_status_updater,
                   beyond_runner>>

\* with trader_lock: traders[pair] = trader
RegisterTrader(pair) ==
    /\ run_trader[pair].pc = "register"
    /\ trader_lock = "free"
    /\ traders' = [traders EXCEPT ![pair] = run_trader[pair].trader]
    /\ run_trader' = [run_trader EXCEPT ![pair].pc = "init"]
    /\ UNCHANGED <<pair_status, trader_lock, objects, bot_status_updater,
                   beyond_runner>>

\* one initialize_trader attempt that returns True
InitializeTrader(pair) ==
    /\ run_trader[pair].pc = "init"
    /\ \E u \in DataProcessOutcomes(objects[run_trader[pair].trader]) :
          objects' = [objects EXCEPT ![run_trader[pair].trader] =
                                        [u EXCEPT !.initialized = TRUE]]
    /\ run_trader' = [run_trader EXCEPT ![pair].pc = "update"]
    /\ UNCHANGED <<traders, pair_status, trader_lock, bot_status_updater,
                   beyond_runner>>

\* one initialize_trader attempt that raises and returns False; after
\* max_attempts of them run_trader returns
InitializeFails(pair) ==
    /\ run_trader[pair].pc = "init"
    /\ \E u \in DataProcessOutcomes(objects[run_trader[pair].trader])
                  \cup {objects[run_trader[pair].trader]} :
          objects' = [objects EXCEPT ![run_trader[pair].trader] = u]
    /\ run_trader' = [run_trader EXCEPT
                         ![pair].initialization_attempts = @ + 1,
                         ![pair].pc = IF run_trader[pair].initialization_attempts + 1
                                          < max_attempts
                                       THEN "init" ELSE "done"]
    /\ UNCHANGED <<traders, pair_status, trader_lock, bot_status_updater,
                   beyond_runner>>

\* trader.update() in the trading loop; when it raises, the loop starts over
LoopUpdate(pair) ==
    /\ run_trader[pair].pc = "update"
    /\ \E u \in DataProcessOutcomes(objects[run_trader[pair].trader]) :
          objects' = [objects EXCEPT ![run_trader[pair].trader] = u]
    /\ \E raised \in BOOLEAN :
          run_trader' = [run_trader EXCEPT
                           ![pair].pc = IF raised THEN "update" ELSE "manager"]
    /\ UNCHANGED <<traders, pair_status, trader_lock, bot_status_updater,
                   beyond_runner>>

\* trader.manager() in the trading loop
LoopManager(pair) ==
    /\ run_trader[pair].pc = "manager"
    /\ \E u \in ManagerOutcomes(objects[run_trader[pair].trader]) :
          objects' = [objects EXCEPT ![run_trader[pair].trader] = u]
    /\ run_trader' = [run_trader EXCEPT ![pair].pc = "update"]
    /\ UNCHANGED <<traders, pair_status, trader_lock, bot_status_updater,
                   beyond_runner>>

\* bot_status_updater enters "with trader_lock"
StatusAcquire ==
    /\ bot_status_updater.pc = "collect"
    /\ trader_lock = "free"
    /\ trader_lock' = "status"
    /\ bot_status_updater' = [pc |-> "visit", visited |-> {}]
    /\ UNCHANGED <<traders, pair_status, objects, run_trader, beyond_runner>>

\* one iteration of "for pair, trader in traders.items()": a trader not yet
\* initialized is skipped, the others are read into pair_status[pair]
StatusVisit ==
    /\ bot_status_updater.pc = "visit"
    /\ \E pair \in Pairs \ bot_status_updater.visited :
          /\ traders[pair] # NoTrader
          /\ bot_status_updater' = [bot_status_updater EXCEPT
                                       !.visited = @ \cup {pair}]
          /\ pair_status' = IF objects[traders[pair]].initialized
                             THEN [pair_status EXCEPT
                                     ![pair] = StatusOf(objects[traders[pair]])]
                             ELSE pair_status
    /\ UNCHANGED <<traders, trader_lock, objects, run_trader, beyond_runner>>

\* the end of the loop: the lock is released and the dashboard updated
StatusRelease ==
    /\ bot_status_updater.pc = "visit"
    /\ \A pair \in Pairs \ bot_status_updater.visited : traders[pair] = NoTrader
    /\ trader_lock' = "free"
    /\ bot_status_updater' = [bot_status_updater EXCEPT !.pc = "collect"]
    /\ UNCHANGED <<traders, pair_status, objects, run_trader, beyond_runner>>

\* one step of the thread run_trader(pair, args)
RunTraderStep(pair) ==
    \/ CreateTrader(pair)
    \/ RegisterTrader(pair)
    \/ InitializeTrader(pair)
    \/ InitializeFails(pair)
    \/ LoopUpdate(pair)
    \/ LoopManager(pair)

NextRunner ==
    \/ \E pair \in Pairs : RunTraderStep(pair)
    \/ StatusAcquire
    \/ StatusVisit
    \/ StatusRelease

SpecRunner == Init /\ [][NextRunner]_vars

(***************************************************************************)
(* The unified trader's threads.  run_trader(pair) tests the flag at the   *)
(* head of its loop and once more inside it, then calls trader.update()    *)
(* and trader.manager(); it leaves the loop for good when the head test    *)
(* finds the flag False.  The dashboard thread serves /api/toggle, the     *)
(* status-updater thread publishes a combined status every few seconds,    *)
(* and main() publishes is_running = False on a keyboard interrupt and     *)
(* exits two seconds later, which ends the daemon threads.                 *)
(***************************************************************************)
\* update() calls of one trading loop that are followed
MaxUpdates == 2

\* /api/toggle requests that are followed
MaxToggles == 2

\* dashboard.update_bot_status(status_update): bot_status.update(...)
update_bot_status(status, status_update) ==
    [key \in DOMAIN status \cup DOMAIN status_update |->
        IF key \in DOMAIN status_update THEN status_update[key] ELSE status[key]]

\* the part of the combined status that bot_status_updater builds that
\* touches the modelled keys of bot_status
combined_status == [is_running |-> TRUE]

\* while bot_status['is_running']:
LoopTest(pair) ==
    /\ main_thread # "exited"
    /\ unified_run_trader[pair] = "while"
    /\ unified_run_trader' =
           [unified_run_trader EXCEPT
               ![pair] = IF bot_status.is_running THEN "check" ELSE "stopped"]
    /\ UNCHANGED <<bot_status, unified_updates, toggles, main_thread, beyond_unified>>

\* if not bot_status['is_running']: sleep; continue
InnerCheck(pair) ==
    /\ main_thread # "exited"
    /\ unified_run_trader[pair] = "check"
    /\ unified_run_trader' =
           [unified_run_trader EXCEPT
               ![pair] = IF bot_status.is_running THEN "update" ELSE "while"]
    /\ UNCHANGED <<bot_status, unified_updates, toggles, main_thread, beyond_unified>>

\* trader.update()
TraderUpdate(pair) ==
    /\ main_thread # "exited"
    /\ unified_run_trader[pair] = "update"
    /\ unified_updates[pair] < MaxUpdates
    /\ unified_updates' = [unified_updates EXCEPT ![pair] = @ + 1]
    /\ unified_run_trader' = [unified_run_trader EXCEPT ![pair] = "manager"]
    /\ UNCHANGED <<bot_status, toggles, main_thread, beyond_unified>>

\* trader.manager(), then the sleep and back to the head of the loop
TraderManager(pair) ==
    /\ main_thread # "exited"
    /\ unified_run_trader[pair] = "manager"
    /\ unified_run_trader' = [unified_run_trader EXCEPT ![pair] = "while"]
    /\ UNCHANGED <<bot_status, unified_updates, toggles, main_thread, beyond_unified>>

\* dashboard.toggle_bot
toggle_bot ==
    /\ main_thread # "exited"
    /\ toggles < MaxToggles
    /\ bot_status' = [bot_status EXCEPT !.is_running = ~bot_status.is_running]
    /\ toggles' = toggles + 1
    /\ UNCHANGED <<unified_run_trader, unified_updates, main_thread, beyond_unified>>

\* one round of unified_trader.bot_status_updater
UnifiedStatusUpdater ==
    /\ main_thread # "exited"
    /\ bot_status' = update_bot_status(bot_status, combined_status)
    /\ UNCHANGED <<unified_run_trader, unified_updates, toggles, main_thread,
                   beyond_unified>>

\* main() on KeyboardInterrupt: update_bot_status({'is_running': False})
Shutdown ==
    /\ main_thread = "running"
    /\ bot_status' = update_bot_status(bot_status, [is_running |-> FALSE])
    /\ main_thread' = "shutting_down"
    /\ UNCHANGED <<unified_run_trader, unified_updates, toggles, beyond_unified>>

\* main() returns after its two seconds of grace
Exit ==
    /\ main_thread = "shutting_down"
    /\ main_thread' = "exited"
    /\ UNCHANGED <<bot_status, unified_run_trader, unified_updates, toggles,
                   beyond_unified>>

NextUnified ==
    \/ \E pair \in Pairs : LoopTest(pair)
    \/ \E pair \in Pairs : InnerCheck(pair)
    \/ \E pair \in Pairs : TraderUpdate(pair)
    \/ \E pair \in Pairs : TraderManager(pair)
    \/ toggle_bot
    \/ UnifiedStatusUpdater
    \/ Shutdown
    \/ Exit

SpecUnified == Init /\ [][NextUnified]_vars

(***************************************************************************)
(* TradingBot's threads.  A thread standing at a "with self._lock:"        *)
(* statement waits until the lock is free: threading.Lock is not           *)
(* reentrant, so this holds for the thread that holds the lock as well.    *)
(* _run_bot simulates the initial positions, then loops over               *)
(* _check_for_signals and the stamp of _last_update; _check_for_signals    *)
(* takes the lock, picks a symbol and calls get_current_price, which takes *)
(* the lock itself.  _update_prices_thread stores fetched prices and       *)
(* updates the positions; the dashboard calls get_status and               *)
(* get_positions.                                                          *)
(***************************************************************************)
\* self.active_symbols
active_symbols == {"BTCUSDT", "ETHUSDT"}

\* the "with self._lock:" statements
LockStatements ==
    {"simulate", "signals", "get_current_price", "stamp", "store_price",
     "update_positions", "get_status"}

\* the statement reached inside the block of a with statement
BlockOf(statement) ==
    CASE statement = "simulate" -> "simulate_block"
      [] statement = "signals" -> "signals_block"
      [] statement = "get_current_price" -> "get_current_price_block"
      [] statement = "stamp" -> "stamp_block"
      [] statement = "store_price" -> "store_price_block"
      [] statement = "update_positions" -> "update_positions_block"
      [] statement = "get_status" -> "get_status_block"

\* _simulate_initial_positions_with_real_prices up to its lock statement
BotStart ==
    /\ thread_at["bot"] = "start"
    /\ \E fetched \in SUBSET active_symbols : current_prices' = fetched
    /\ thread_at' = [thread_at EXCEPT !["bot"] = "simulate"]
    /\ UNCHANGED <<bot_lock, positions, beyond_trading_bot>>

\* _check_for_signals up to its lock statement: it returns early by chance
\* or when five positions are open
BotCheckForSignals ==
    /\ thread_at["bot"] = "loop"
    /\ \E early \in BOOLEAN :
          thread_at' = [thread_at EXCEPT
                           !["bot"] = IF early THEN "stamp" ELSE "signals"]
    /\ UNCHANGED <<bot_lock, positions, current_prices, beyond_trading_bot>>

\* a thread enters the block of the with statement it stands at
Acquire(thread) ==
    /\ thread_at[thread] \in LockStatements
    /\ bot_lock = "free"
    /\ bot_lock' = thread
    /\ thread_at' = [thread_at EXCEPT ![thread] = BlockOf(thread_at[thread])]
    /\ UNCHANGED <<positions, current_prices, beyond_trading_bot>>

\* _check_for_signals inside its block: no symbol is available and it
\* returns, or it calls get_current_price(symbol) with the lock held
BotChooseSymbol ==
    /\ thread_at["bot"] = "signals_block"
    /\ IF active_symbols \subseteq positions
       THEN /\ bot_lock' = "free"
            /\ thread_at' = [thread_at EXCEPT !["bot"] = "stamp"]
       ELSE /\ bot_lock' = bot_lock
            /\ thread_at' = [thread_at EXCEPT !["bot"] = "get_current_price"]
    /\ UNCHANGED <<positions, current_prices, beyond_trading_bot>>

\* a thread runs the block it is in and leaves it, which releases the lock
Block(thread) ==
    /\ bot_lock = thread
    /\ \/ /\ thread_at[thread] = "simulate_block"
          /\ positions' = current_prices
          /\ thread_at' = [thread_at EXCEPT ![thread] = "loop"]
          /\ UNCHANGED current_prices
       \/ /\ thread_at[thread] = "get_current_price_block"
          \* the price comes back and _check_for_signals opens the position,
          \* or it is 0 and the signal is skipped
          /\ \E symbol \in active_symbols \ positions, priced \in BOOLEAN :
                /\ positions' = IF priced THEN positions \cup {symbol} ELSE positions
                /\ current_prices' = IF priced THEN current_prices \cup {symbol}
                                     ELSE current_prices
          /\ thread_at' = [thread_at EXCEPT ![thread] = "stamp"]
       \/ /\ thread_at[thread] = "stamp_block"
          /\ thread_at' = [thread_at EXCEPT ![thread] = "loop"]
          /\ UNCHANGED <<positions, current_prices>>
       \/ /\ thread_at[thread] = "store_price_block"
          /\ \E symbol \in active_symbols : current_prices' = current_prices \cup {symbol}
          /\ thread_at' = [thread_at EXCEPT ![thread] = "positions_check"]
          /\ UNCHANGED positions
       \/ /\ thread_at[thread] = "update_positions_block"
          \* positions whose stop loss or take profit was hit are closed
          /\ \E open \in SUBSET positions :
                /\ (positions \ open) \subseteq current_prices
                /\ positions' = open
          /\ thread_at' = [thread_at EXCEPT ![thread] = "idle"]
          /\ UNCHANGED current_prices
       \/ /\ thread_at[thread] = "get_status_block"
          /\ thread_at' = [thread_at EXCEPT ![thread] = "idle"]
          /\ UNCHANGED <<positions, current_prices>>
    /\ bot_lock' = "free"
    /\ UNCHANGED beyond_trading_bot

\* _update_prices_thread: a price was fetched and is stored under the lock,
\* or none was and the positions are updated next
PricesFetch ==
    /\ thread_at["prices"] = "idle"
    /\ \E fetched \in BOOLEAN :
          thread_at' = [thread_at EXCEPT
                           !["prices"] = IF fetched THEN "store_price"
                                         ELSE "positions_check"]
    /\ UNCHANGED <<bot_lock, positions, current_prices, beyond_trading_bot>>

\* _update_positions_with_current_prices up to its lock statement
PricesCheckPositions ==
    /\ thread_at["prices"] = "positions_check"
    /\ thread_at' = [thread_at EXCEPT
                        !["prices"] = IF positions = {} THEN "idle"
                                      ELSE "update_positions"]
    /\ UNCHANGED <<bot_lock, positions, current_prices, beyond_trading_bot>>

\* the dashboard asks for get_status() or get_positions()
ApiRequest ==
    /\ thread_at["api"] = "idle"
    /\ thread_at' = [thread_at EXCEPT !["api"] = "get_status"]
    /\ UNCHANGED <<bot_lock, positions, current_prices, beyond_trading_bot>>

NextTradingBot ==
    \/ BotStart
    \/ BotCheckForSignals
    \/ \E thread \in Threads : Acquire(thread)
    \/ BotChooseSymbol
    \/ \E thread \in Threads : Block(thread)
    \/ PricesFetch
    \/ PricesCheckPositions
    \/ ApiRequest

SpecTradingBot == Init /\ [][NextTradingBot]_vars

(***************************************************************************)
(* APILogHandler: emit stores one entry per Binance API record in a deque  *)
(* of max_logs entries, get_logs filters the stored entries and slices the *)
(* reversed list.                                                          *)
(***************************************************************************)
\* max_logs (500 by default)
max_logs == 3

\* records emitted in a run
MaxEmits == 4

Categories == {"Account", "Order"}

Statuses == {"200", "400"}

\* limit arguments of get_logs
Limits == {1, 2}

\* deque(maxlen = max_logs).append(log_entry)
DequeAppend(d, log_entry) ==
    IF Len(d) < max_logs THEN Append(d, log_entry)
    ELSE Append(Tail(d), log_entry)

\* list(reversed(l))
Reversed(l) == [i \in 1..Len(l) |-> l[Len(l) + 1 - i]]

\* l[-limit:] for limit >= 1
LastSlice(l, limit) ==
    IF limit >= Len(l) THEN l ELSE SubSeq(l, Len(l) - limit + 1, Len(l))

\* the entries a filter keeps; "None" is no filter
RECURSIVE Filtered(_, _, _)
Filtered(l, category, status) ==
    IF l = <<>> THEN <<>>
    ELSE IF /\ category \in {"None", Head(l).category}
            /\ status \in {"None", Head(l).status}
         THEN <<Head(l)>> \o Filtered(Tail(l), category, status)
         ELSE Filtered(Tail(l), category, status)

\* get_logs(category, status, limit)
get_logs(l, category, status, limit) ==
    LastSlice(Reversed(Filtered(l, category, status)), limit)

\* emit(record) for a record of a Binance API call
Emit ==
    /\ emitted < MaxEmits
    /\ \E category \in Categories, status \in Statuses :
          logs' = DequeAppend(logs, [id |-> emitted + 1, category |-> category,
                                     status |-> status])
    /\ emitted' = emitted + 1
    /\ UNCHANGED <<returned, beyond_api_logger>>

GetLogs ==
    /\ \E category \in Categories \cup {"None"}, status \in Statuses \cup {"None"},
          limit \in Limits :
          returned' = [category |-> category, status |-> status, limit |-> limit,
                       result |-> get_logs(logs, category, status, limit)]
    /\ UNCHANGED <<logs, emitted, beyond_api_logger>>

NextApiLogger ==
    \/ Emit
    \/ GetLogs

SpecApiLogger == Init /\ [][NextApiLogger]_vars

(***************************************************************************)
(* src/ict_strategy.py: find_entry_mss, calculate_sl_tp,                   *)
(* check_ny_kill_zones and the decision of analyze_market_structure_ict.   *)
(* The daily bias, the 4H and 1H bias and the 15m liquidity sweep come in  *)
(* as the values their functions return; the 5m frame is a sequence of     *)
(* [high, low, close] and the time of the call is in seconds of the New    *)
(* York day.  None is the empty tuple, a price level v is <<v>>.           *)
(***************************************************************************)
NoLevel == <<>>

Level(v) == <<v>>

\* df['swing_high'] is set at row i: shift(1) is NaN on the first row and a
\* comparison with NaN is False; the other shifts are filled with 0
SwingHighAt(d, i) ==
    /\ i >= 2
    /\ d[i].high > d[i - 1].high
    /\ d[i].high > (IF i + 1 <= Len(d) THEN d[i + 1].high ELSE 0)
    /\ d[i].high > (IF i - 2 >= 1 THEN d[i - 2].high ELSE 0)
    /\ d[i].high > (IF i + 2 <= Len(d) THEN d[i + 2].high ELSE 0)

\* df['swing_low'] is set at row i: shift(2) is filled with 0, the forward
\* shifts with 9999999
SwingLowAt(d, i) ==
    /\ i >= 2
    /\ d[i].low < d[i - 1].low
    /\ d[i].low < (IF i + 1 <= Len(d) THEN d[i + 1].low ELSE 9999999)
    /\ d[i].low < (IF i - 2 >= 1 THEN d[i - 2].low ELSE 0)
    /\ d[i].low < (IF i + 2 <= Len(d) THEN d[i + 2].low ELSE 9999999)

recent_swing_highs(d) == {i \in 1..Len(d) : SwingHighAt(d, i)}

recent_swing_lows(d) == {i \in 1..Len(d) : SwingLowAt(d, i)}

\* lookback of find_entry_mss
mss_lookback == 3

\* find_entry_mss without its test of the sweep: no sweep counts as a
\* bullish grab
find_entry_mss_Unswept(d, liquidity_sweep) ==
    IF Len(d) < mss_lookback + 1 THEN "No MSS"
    ELSE IF /\ liquidity_sweep # "Liquidity Grab (Bearish)"
            /\ recent_swing_highs(d) # {}
            /\ d[Len(d)].close > d[SetMax(recent_swing_highs(d))].high
         THEN "Bullish MSS"
         ELSE "No MSS"

\* find_entry_mss(df, liquidity_sweep)
find_entry_mss(d, liquidity_sweep) ==
    IF liquidity_sweep = "No Sweep" THEN "No MSS"
    ELSE IF Len(d) < mss_lookback + 1 THEN "No MSS"
    ELSE IF /\ liquidity_sweep = "Liquidity Grab (Bullish)"
            /\ recent_swing_highs(d) # {}
            /\ d[Len(d)].close > d[SetMax(recent_swing_highs(d))].high
         THEN "Bullish MSS"
    ELSE IF /\ liquidity_sweep = "Liquidity Grab (Bearish)"
            /\ recent_swing_lows(d) # {}
            /\ d[Len(d)].close < d[SetMax(recent_swing_lows(d))].low
         THEN "Bearish MSS"
    ELSE "No MSS"

\* df[...].tail(n): the rows of the last n candles
TailRowsOf(d, n) == (IF Len(d) > n THEN Len(d) - n + 1 ELSE 1)..Len(d)

\* the take profit: the risk:reward target, or the alternative level when it
\* is closer to the price and on the right side of it
CloserTarget(current_price, rr_target, alt_tp, right_side) ==
    IF Abs(current_price - alt_tp) < Abs(current_price - rr_target) /\ right_side
    THEN alt_tp ELSE rr_target

\* calculate_sl_tp(df, trade_direction) with risk_reward_ratio = 2.0
calculate_sl_tp(d, trade_direction) ==
    IF trade_direction \notin {"Bullish MSS", "Bearish MSS"}
    THEN [stop_loss |-> NoLevel, take_profit |-> NoLevel]
    ELSE IF Len(d) < 5 THEN [stop_loss |-> NoLevel, take_profit |-> NoLevel]
    ELSE IF trade_direction = "Bullish MSS"
         THEN [stop_loss |-> Level(MinLow(d, TailRowsOf(d, 5))),
               take_profit |->
                   Level(CloserTarget(
                       d[Len(d)].close,
                       d[Len(d)].close + (d[Len(d)].close - MinLow(d, TailRowsOf(d, 5))) * 2,
                       MaxHigh(d, TailRowsOf(d, 20)),
                       MaxHigh(d, TailRowsOf(d, 20)) > d[Len(d)].close))]
         ELSE [stop_loss |-> Level(MaxHigh(d, TailRowsOf(d, 5))),
               take_profit |->
                   Level(CloserTarget(
                       d[Len(d)].close,
                       d[Len(d)].close - (MaxHigh(d, TailRowsOf(d, 5)) - d[Len(d)].close) * 2,
                       MinLow(d, TailRowsOf(d, 20)),
                       MinLow(d, TailRowsOf(d, 20)) < d[Len(d)].close))]

\* check_ny_kill_zones(): 7:00 - 10:00 and 14:00 - 16:00 New York time, the
\* ends included
check_ny_kill_zones(current_time) ==
    \/ 7 * 3600 <= current_time /\ current_time <= 10 * 3600
    \/ 14 * 3600 <= current_time /\ current_time <= 16 * 3600

\* the decision of analyze_market_structure_ict from the step results
IctDecision(daily, bias_4h, bias_1h, liquidity_sweep, mss, levels, in_kill_zone) ==
    [daily_bias |-> daily,
     bias_4h |-> bias_4h,
     bias_1h |-> bias_1h,
     htf_confirms_daily |-> (bias_4h = daily \/ bias_1h = daily),
     liquidity_sweep |-> liquidity_sweep,
     market_structure_shift |-> mss,
     in_ny_kill_zone |-> in_kill_zone,
     stop_loss |-> levels.stop_loss,
     take_profit |-> levels.take_profit,
     take_trade |->
         /\ (bias_4h = daily \/ bias_1h = daily)
         /\ mss # "No MSS"
         /\ in_kill_zone
         /\ levels.stop_loss # NoLevel
         /\ levels.take_profit # NoLevel
         /\ \/ daily = "Bullish" /\ mss = "Bullish MSS"
            \/ daily = "Bearish" /\ mss = "Bearish MSS",
     trade_direction |->
         IF /\ (bias_4h = daily \/ bias_1h = daily)
            /\ mss # "No MSS"
            /\ in_kill_zone
            /\ levels.stop_loss # NoLevel
            /\ levels.take_profit # NoLevel
            /\ \/ daily = "Bullish" /\ mss = "Bullish MSS"
               \/ daily = "Bearish" /\ mss = "Bearish MSS"
         THEN IF mss = "Bullish MSS" THEN "BUY" ELSE "SELL"
         ELSE "None"]

IctWithMss(in, mss) ==
    IctDecision(in.daily_bias, in.bias_4h, in.bias_1h, in.liquidity_sweep, mss,
                IF mss # "No MSS" THEN calculate_sl_tp(in.df_5m, mss)
                ELSE [stop_loss |-> NoLevel, take_profit |-> NoLevel],
                check_ny_kill_zones(in.now))

\* analyze_market_structure_ict: the result dictionary, or the error
\* dictionary when a step raises
analyze_market_structure_ict(in) ==
    IF in.raises
    THEN [error |-> TRUE, take_trade |-> FALSE, trade_direction |-> "None"]
    ELSE IctWithMss(in, find_entry_mss(in.df_5m, in.liquidity_sweep))

\* the inputs: a rising and a falling 5m frame, each cut to its last 3 to 7
\* candles and closing inside or beyond its last swing
Candle5m(high, low, close) == [high |-> high, low |-> low, close |-> close]

RisingFrame ==
    <<Candle5m(200, 190, 195), Candle5m(201, 191, 196), Candle5m(210, 200, 205),
      Candle5m(205, 195, 200), Candle5m(204, 194, 199), Candle5m(215, 205, 210),
      Candle5m(215, 205, 212)>>

FallingFrame ==
    <<Candle5m(110, 100, 105), Candle5m(109, 99, 104), Candle5m(100, 90, 95),
      Candle5m(105, 95, 100), Candle5m(106, 96, 101), Candle5m(95, 85, 90),
      Candle5m(95, 85, 86)>>

Frames5m ==
    {[SubSeq(f, from, Len(f)) EXCEPT ![Len(f) - from + 1].close = @ + up] :
        f \in {RisingFrame, FallingFrame}, from \in 1..5, up \in {-6, 0, 6}}

Biases == {"Bullish", "Bearish", "Neutral"}

Sweeps == {"No Sweep", "Liquidity Grab (Bullish)", "Liquidity Grab (Bearish)"}

\* seconds of the day around the ends of the kill zones
TimesOfDay == {25199, 25200, 36000, 36001, 50399, 50400, 57600, 57601}

\* one call is followed: the function keeps no state between calls
Analyze ==
    /\ ict_result = NoAnalysis
    /\ \E daily \in Biases, bias_4h \in Biases, bias_1h \in Biases,
          liquidity_sweep \in Sweeps, df_5m \in Frames5m, now \in TimesOfDay,
          raises \in BOOLEAN :
          \E in \in {[daily_bias |-> daily, bias_4h |-> bias_4h, bias_1h |-> bias_1h,
                      liquidity_sweep |-> liquidity_sweep, df_5m |-> df_5m,
                      now |-> now, raises |-> raises]} :
              /\ ict_input' = in
              /\ ict_result' = analyze_market_structure_ict(in)
    /\ UNCHANGED beyond_ict

NextIct == Analyze

SpecIct == Init /\ [][NextIct]_vars

(***************************************************************************)
(* backtest_loop of the standalone client, one iteration per step.  The    *)
(* crossover tests read the moving averages of the current and of the      *)
(* previous row and the truth value of self.position.                      *)
(***************************************************************************)
\* rows examined in a backtest
MaxBacktestRows == 6

SmaLevels == {1, 2, 3}

ClosePrices == {100, 105, 110}

\* the truth value Python gives a number
Truthy(x) == x # 0

\* open_position(epoch, price): the assignments to position and position_price
open_position(price) == [position |-> 1, position_price |-> <<price>>]

BacktestStep ==
    /\ backtest_status = "running"
    /\ backtest_rows < MaxBacktestRows
    /\ \E sma_20 \in SmaLevels, sma_50 \in SmaLevels, price \in ClosePrices :
          /\ backtest_row' = [sma_20 |-> sma_20, sma_50 |-> sma_50, close |-> price]
          /\ IF /\ sma_20 > sma_50
                /\ backtest_row.sma_20 <= backtest_row.sma_50
                /\ ~Truthy(position)
             THEN \* bullish crossover - buy
                  /\ position' = open_position(price).position
                  /\ position_price' = open_position(price).position_price
                  /\ trades' = Append(trades, "buy")
                  /\ UNCHANGED <<equity, backtest_status>>
             ELSE IF /\ sma_20 < sma_50
                     /\ backtest_row.sma_20 >= backtest_row.sma_50
                     /\ Truthy(position)
                  THEN \* bearish crossover - sell
                       IF position_price = NoAttribute
                       THEN \* price - self.position_price: AttributeError
                            /\ backtest_status' = "raised"
                            /\ UNCHANGED <<position, position_price, trades, equity>>
                       ELSE \* close_position resets position_data only
                            /\ equity' = Append(equity, equity[Len(equity)]
                                                        + price - position_price[1])
                            /\ trades' = Append(trades, "sell")
                            /\ UNCHANGED <<position, position_price, backtest_status>>
                  ELSE UNCHANGED <<position, position_price, trades, equity,
                                   backtest_status>>
    /\ backtest_rows' = backtest_rows + 1
    /\ UNCHANGED beyond_standalone

NextStandalone == BacktestStep

SpecStandalone == Init /\ [][NextStandalone]_vars

(***************************************************************************)
(* Properties.                                                             *)
(***************************************************************************)
OpenRecords == {n \in 1..Len(trade_history) : trade_history[n].status # "closed"}

HasFvg(type) == \E n \in 1..Len(active_fvgs) : active_fvgs[n].type = type

\* C1: at most one position is open at any time: at most one trade record is
\* not closed, and one is exactly while position_open holds; no entry
\* candidate is produced while position_open holds; a trade record is
\* appended only by a step that starts with no position open.
C1_SinglePosition ==
    /\ [](/\ Cardinality(OpenRecords) <= 1
          /\ position_open <=> OpenRecords # {})
    /\ [][position_open => valid_entries' = valid_entries]_vars
    /\ [][Len(trade_history') > Len(trade_history)
            => ~position_open /\ position_open'
               /\ Len(trade_history') = Len(trade_history) + 1]_vars

\* a second trade has been opened after the first one was closed
C1_Witness ==
    /\ Len(trade_history) = 2
    /\ position_open
    /\ trade_history[1].status = "closed"

\* C2: while a long position stays open the stop loss never decreases from
\* one call to the next, and while a short position stays open it never
\* increases.
C2_TrailingMonotone ==
    [][(/\ position_open /\ position_open'
        /\ position_type' = position_type
        /\ trade_history' = trade_history)
         => /\ position_type = "long" => RGe(stop_loss', stop_loss)
            /\ position_type = "short" => RLe(stop_loss', stop_loss)]_vars

\* an open position whose stop has been trailed beyond the stop it was
\* opened with
C2_Witness ==
    /\ position_open
    /\ trade_history # <<>>
    /\ \/ /\ position_type = "long"
          /\ RGt(stop_loss, trade_history[Len(trade_history)].stop_loss)
       \/ /\ position_type = "short"
          /\ RLt(stop_loss, trade_history[Len(trade_history)].stop_loss)

\* C3: processing a candle window a second time is a no-op: after an
\* update() that took in a new candle, one more data_process pass over the
\* same window leaves active_fvgs, valid_entries and htf_bias as they are.
C3_RepeatIsNoOp ==
    [][fed' = fed + 1
         => data_process(df', htf_df', active_fvgs', htf_bias', position_open',
                         valid_entries', min_fvg_size')
              = [bias |-> htf_bias', fvgs |-> active_fvgs',
                 entries |-> valid_entries']]_vars

\* C4: a manager() call whose entry order fails leaves no position open and
\* appends no trade record.
C4_FailedEntryStaysFlat ==
    [][exec' = "entry_failed"
         => /\ position_open' = FALSE
            /\ trade_history' = trade_history]_vars

\* an entry order has failed
C4_Witness ==
    /\ exec = "entry_failed"
    /\ ~position_open
    /\ valid_entries # <<>>

\* C5: after a failed entry order the FVG that produced the candidate is
\* not marked retested.
C5_FailedEntryKeepsFvg ==
    [][exec' = "entry_failed"
         => \A n \in 1..Len(active_fvgs') :
                active_fvgs'[n].created_time = valid_entries'[1].fvg
                    => ~active_fvgs'[n].retested]_vars

\* C6: an update() that takes in a malformed candle (high < low), the
\* higher-timeframe window being the same, leaves htf_bias, active_fvgs, the
\* entry candidates and the position as they were.
C6_MalformedCandleSkipped ==
    [][(/\ fed' = fed + 1
        /\ IsMalformed(df'[Len(df')])
        /\ htf_df' = htf_df)
         => /\ htf_bias' = htf_bias
            /\ active_fvgs' = active_fvgs
            /\ valid_entries' = valid_entries
            /\ position_open' = position_open
            /\ position_type' = position_type
            /\ stop_loss' = stop_loss]_vars

\* C7: after an update() that took in a new candle, active_fvgs holds no
\* filled FVG and no FVG of the maximum age or older.
C7_NoFilledOrStaleFvg ==
    [][fed' = fed + 1
         => \A n \in 1..Len(active_fvgs') :
                /\ ~active_fvgs'[n].filled
                /\ df'[Len(df')].t - active_fvgs'[n].created_time < FvgMaxAgeSeconds]_vars

\* C8: every FVG in active_fvgs has its upper bound strictly above its lower
\* bound.
C8_FvgTopAboveBottom ==
    \A n \in 1..Len(active_fvgs) : active_fvgs[n].high > active_fvgs[n].low

\* a bullish and a bearish FVG are tracked together
C8_Witness == HasFvg("bullish") /\ HasFvg("bearish")

\* whether an FVG of the given type, created at row k of df, is tracked
StoredAt(k, type) ==
    \E n \in 1..Len(active_fvgs) :
        /\ active_fvgs[n].created_time = df[k].t
        /\ active_fvgs[n].type = type

\* C9: after detect_fair_value_gaps(df) with a sweep flagged at row s, a gap
\* between rows s and s+2 whose timestamp is not yet tracked is stored if and
\* only if its width divided by the reference price is at least min_fvg_size,
\* the boundary included; with high[s] = 100.0 and low[s+2] = 100.2 it is
\* stored for min_fvg_size = 0.001 and not stored for min_fvg_size = 0.003.
C9_StoredIffSizeAtLeastMin ==
    frame # NoFrame =>
        LET s      == frame.row
            k      == frame.row + 2
            num    == min_fvg_size[1]
            den    == min_fvg_size[2]
            bottom == IF frame.kind = "low" THEN df[s].high ELSE df[k].high
            top    == IF frame.kind = "low" THEN df[k].low ELSE df[s].low
            ref    == IF frame.kind = "low" THEN df[s].high ELSE df[s].low
            type   == IF frame.kind = "low" THEN "bullish" ELSE "bearish"
            other  == IF frame.kind = "low" THEN "bearish" ELSE "bullish"
        IN  /\ (top > bottom /\ ~StoredAt(k, other))
                 => (StoredAt(k, type) <=> (top - bottom) * den >= num * ref)
            /\ (/\ frame.kind = "low"
                /\ df[s].high = 1000 /\ df[k].low = 1002
                /\ ~StoredAt(k, "bearish"))
                 => /\ min_fvg_size = Rat(1, 1000) => StoredAt(k, "bullish")
                    /\ min_fvg_size = Rat(3, 1000) => ~StoredAt(k, "bullish")

\* the gap from 100.0 to 100.2 has been stored with min_fvg_size = 0.001
C9_Witness ==
    /\ frame # NoFrame
    /\ frame.kind = "low"
    /\ df[frame.row].high = 1000
    /\ df[frame.row + 2].low = 1002
    /\ min_fvg_size = Rat(1, 1000)
    /\ StoredAt(frame.row + 2, "bullish")

\* the rows of d whose high (low) is strictly above (below) every other high
\* (low) of the 2 * window + 1 rows around them
StrictSwings(d, window) ==
    [i \in 1..Len(d) |->
        LET inRange == i > window /\ i + window <= Len(d)
            others  == ((i - window)..(i + window)) \ {i}
        IN  [swing_high |-> inRange /\ \A j \in others : d[j].high < d[i].high,
             swing_low  |-> inRange /\ \A j \in others : d[j].low > d[i].low]]

StrictSwingsHolds ==
    [w \in HtfWindows |-> calculate_swings(w, 5) = StrictSwings(w, 5)]

\* C10: calculate_swings marks row i of the higher-timeframe window as a
\* swing high exactly when i has window rows on each side and its high is the
\* strict maximum of the 2 * window + 1 highs around it; swing lows mirror it
\* with the strict minimum of lows.
C10_SwingsAreStrictExtrema ==
    htf_df # <<>> => StrictSwingsHolds[htf_df]

\* the recent rows of d (the last 20) that calculate_swings marks, as sets
RecentSwingHighs(d) ==
    {i \in 1..Len(d) : i > Len(d) - 20 /\ calculate_swings(d, 5)[i].swing_high}

RecentSwingLows(d) ==
    {i \in 1..Len(d) : i > Len(d) - 20 /\ calculate_swings(d, 5)[i].swing_low}

\* the largest and the second largest member of a set of rows
LastOf(S) == CHOOSE i \in S : \A j \in S : j <= i
LastButOneOf(S) == LastOf(S \ {LastOf(S)})

\* the bias the last two recent swing highs and lows of d call for
ExpectedBias(d) ==
    IF Cardinality(RecentSwingHighs(d)) < 2 \/ Cardinality(RecentSwingLows(d)) < 2
    THEN "Neutral"
    ELSE LET hi  == d[LastOf(RecentSwingHighs(d))].high
             hi0 == d[LastButOneOf(RecentSwingHighs(d))].high
             lo  == d[LastOf(RecentSwingLows(d))].low
             lo0 == d[LastButOneOf(RecentSwingLows(d))].low
         IN  CASE hi > hi0 /\ lo > lo0 -> "Bullish"
               [] hi < hi0 /\ lo < lo0 -> "Bearish"
               [] hi < hi0 /\ lo > lo0 -> "Consolidation"
               [] hi > hi0 /\ lo < lo0 -> "Expansion"
               [] OTHER -> "Neutral"

ExpectedBiasOf == [hd \in HtfRamps |-> ExpectedBias(hd)]

\* C11: with at least two swing highs and two swing lows in the last 20 rows,
\* the bias set from a higher-timeframe window is Bullish for a higher high
\* and higher low, Bearish for a lower high and lower low, Consolidation for
\* a lower high and higher low, Expansion for a higher high and lower low,
\* and Neutral for every other combination of the last two highs and lows.
C11_BiasFromLastTwoSwings ==
    [][(/\ htf_df' \in HtfRamps
        /\ Cardinality(RecentSwingHighs(htf_df')) >= 2
        /\ Cardinality(RecentSwingLows(htf_df')) >= 2)
         => htf_bias' = ExpectedBiasOf[htf_df']]_vars

\* a window with a higher high and a lower low has been classified
C11_Witness ==
    /\ htf_df \in HtfRamps
    /\ Cardinality(RecentSwingHighs(htf_df)) >= 2
    /\ Cardinality(RecentSwingLows(htf_df)) >= 2
    /\ htf_bias = "Expansion"

\* C12: a higher-timeframe window shorter than 2 * window + 1 rows gets no
\* swing high and no swing low, and a window with fewer than two recent swing
\* highs or two recent swing lows sets the bias to Neutral.
C12_InsufficientHistoryIsNeutral ==
    [][htf_df' # <<>>
         => /\ Len(htf_df') < 2 * 5 + 1
                => \A i \in 1..Len(htf_df') :
                       /\ ~calculate_swings(htf_df', 5)[i].swing_high
                       /\ ~calculate_swings(htf_df', 5)[i].swing_low
            /\ (\/ Cardinality(RecentSwingHighs(htf_df')) < 2
                \/ Cardinality(RecentSwingLows(htf_df')) < 2)
                => htf_bias' = "Neutral"]_vars

\* a window of fewer than 11 rows has been processed
C12_Witness ==
    /\ htf_df # <<>>
    /\ Len(htf_df) < 2 * 5 + 1
    /\ htf_bias = "Neutral"

\* C13: an update() that takes in a new candle marks an FVG that was
\* tracked and unfilled as filled exactly when the candle trades through the
\* midpoint of the gap: its low at or below (high + low) / 2 for a bullish
\* FVG, its high at or above (high + low) / 2 for a bearish one.
C13_FilledByMidpoint ==
    [][fed' = fed + 1
         => \A n \in 1..Len(active_fvgs') :
                (\E k \in 1..Len(active_fvgs) :
                    /\ active_fvgs[k].created_time = active_fvgs'[n].created_time
                    /\ ~active_fvgs[k].filled)
                  => (active_fvgs'[n].filled
                        <=> IF active_fvgs'[n].type = "bullish"
                            THEN 2 * df'[Len(df')].low
                                   <= active_fvgs'[n].high + active_fvgs'[n].low
                            ELSE 2 * df'[Len(df')].high
                                   >= active_fvgs'[n].high + active_fvgs'[n].low)]_vars

\* C14: every entry candidate a step builds is a long from a bullish FVG
\* under a Bullish bias or a short from a bearish FVG under a Bearish bias;
\* under any other bias no candidate is built.
C14_CandidatesFollowBias ==
    [][(valid_entries' # valid_entries /\ valid_entries' # <<>>)
         => \A n \in 1..Len(valid_entries') :
                /\ \E k \in 1..Len(active_fvgs') :
                      /\ active_fvgs'[k].created_time = valid_entries'[n].fvg
                      /\ active_fvgs'[k].type
                           = IF valid_entries'[n].type = "long" THEN "bullish"
                             ELSE "bearish"
                /\ valid_entries'[n].type = "long" => htf_bias' = "Bullish"
                /\ valid_entries'[n].type = "short" => htf_bias' = "Bearish"]_vars

C16_CloseRecordsAndFrees ==
    /\ [][(position_open /\ ~position_open')
            => /\ exec' \in {"exit_ok", "exit_failed"}
               /\ Len(trade_history') = Len(trade_history)
               /\ trade_history'[Len(trade_history')].status = "closed"
               /\ trade_history'[Len(trade_history')].exit_price
                    = RInt(df[Len(df)].close)
               /\ \A n \in 1..(Len(trade_history) - 1) :
                      trade_history'[n] = trade_history[n]]_vars
    /\ [][(~position_open /\ exec' # "none")
            => /\ exec' \in {"entry_ok", "entry_failed"}
               /\ valid_entries' # <<>>
               /\ valid_entries'
                    = data_process(df, htf_df, active_fvgs, htf_bias, position_open,
                                   valid_entries, min_fvg_size).entries
               /\ exec' = "entry_ok" => position_open']_vars

\* a position was closed with its exit data recorded, and the manager() call
\* after it has entered again
C16_Witness ==
    /\ exec = "entry_ok"
    /\ position_open
    /\ Len(trade_history) >= 2
    /\ trade_history[Len(trade_history) - 1].status = "closed"
    /\ trade_history[Len(trade_history) - 1].exit_price # Zero

\* C17: a position closed because the price crossed take_profit is recorded
\* with exit price take_profit, and one closed because the price crossed
\* stop_loss with exit price stop_loss.
C17_ExitAtLevel ==
    [][(position_open /\ ~position_open')
         => trade_history'[Len(trade_history')].exit_price
              = IF \/ /\ position_type = "long"
                      /\ RGe(RInt(df[Len(df)].close), take_profit)
                   \/ /\ position_type = "short"
                      /\ RLe(RInt(df[Len(df)].close), take_profit)
                THEN take_profit
                ELSE stop_loss']_vars

\* the arithmetic of one entry candidate against the close it was built at
CandidateWellFormed(e, close) ==
    /\ e.entry_price = RInt(close)
    /\ e.risk_amount = RAbs(RSub(e.entry_price, e.stop_loss))
    /\ RGt(e.risk_amount, Zero)
    /\ e.type = "long"
         => /\ e.take_profit = RAdd(e.entry_price, RMul(e.risk_amount, rr_ratio))
            /\ RLt(e.stop_loss, e.entry_price)
            /\ RLt(e.entry_price, e.take_profit)
    /\ e.type = "short"
         => /\ e.take_profit = RSub(e.entry_price, RMul(e.risk_amount, rr_ratio))
            /\ RLt(e.take_profit, e.entry_price)
            /\ RLt(e.entry_price, e.stop_loss)

\* C20: every entry candidate built by check_fvg_retests has entry price equal
\* to the current close, risk_amount = |entry_price - stop_loss| > 0 and
\* take_profit = entry_price + risk_amount*rr_ratio for a long (minus for a
\* short), so a long has stop_loss < entry_price < take_profit and a short has
\* take_profit < entry_price < stop_loss.
C20_CandidateArithmetic ==
    [][valid_entries' # valid_entries
         => \A n \in 1..Len(valid_entries') :
                CandidateWellFormed(valid_entries'[n], df'[Len(df')].close)]_vars

\* a short candidate built from the last close, inside a bearish FVG
C20_Witness ==
    /\ ~position_open
    /\ \E n \in 1..Len(valid_entries) :
          /\ valid_entries[n].type = "short"
          /\ valid_entries[n].entry_price = RInt(df[Len(df)].close)
          /\ \E m \in 1..Len(active_fvgs) :
                /\ active_fvgs[m].type = "bearish"
                /\ active_fvgs[m].retested
                /\ active_fvgs[m].created_time = valid_entries[n].fvg

\* the minimum low and the maximum high of the lookback window: the
\* liquidity_lookback latest rows without the last five
WindowLow(d) ==
    SetMin({d[i].low : i \in (Len(d) - 19)..(Len(d) - 5)})

WindowHigh(d) ==
    SetMax({d[i].high : i \in (Len(d) - 19)..(Len(d) - 5)})

BullishSweepCase(d, bias) ==
    /\ Len(d) > 20
    /\ \E i \in (Len(d) - 4)..Len(d) : d[i].low * 1000 < 999 * WindowLow(d)
    /\ d[Len(d)].close > d[Len(d)].open
    /\ bias = "bullish"

BearishSweepCase(d, bias) ==
    /\ Len(d) > 20
    /\ \E i \in (Len(d) - 4)..Len(d) : d[i].high * 1000 > 1001 * WindowHigh(d)
    /\ d[Len(d)].close < d[Len(d)].open
    /\ bias = "bearish"

\* C18: detect_liquidity_sweeps of the enhanced client records a bullish sweep
\* exactly when the frame is longer than the lookback, one of the last 5
\* candles has its low below 0.999 times the minimum low of the lookback
\* window without those 5, the latest candle closes above its open and the
\* daily bias is bullish; a bearish sweep in the mirror case against the
\* maximum high; otherwise last_liquidity_sweep is left unchanged.
C18_SweepRecordedExactlyWhen ==
    [][daily_bias' = daily_bias
         => /\ BullishSweepCase(ltf_df', daily_bias)
                 => last_liquidity_sweep'
                      = [type |-> "bullish", price |-> WindowLow(ltf_df'),
                         candle_index |-> Len(ltf_df') - 1,
                         time |-> ltf_df'[Len(ltf_df')].t]
            /\ BearishSweepCase(ltf_df', daily_bias)
                 => last_liquidity_sweep'
                      = [type |-> "bearish", price |-> WindowHigh(ltf_df'),
                         candle_index |-> Len(ltf_df') - 1,
                         time |-> ltf_df'[Len(ltf_df')].t]
            /\ ~BullishSweepCase(ltf_df', daily_bias)
                 /\ ~BearishSweepCase(ltf_df', daily_bias)
                 => last_liquidity_sweep' = last_liquidity_sweep]_vars

\* a bullish sweep recorded from a 25-row frame whose dip is just below the
\* threshold, with a lower low in row 1, which lies before the lookback window
C18_Witness ==
    /\ daily_bias = "bullish"
    /\ Len(ltf_df) = 25
    /\ BullishSweepCase(ltf_df, daily_bias)
    /\ \E i \in 21..25 : ltf_df[i].low = 998
    /\ ltf_df[1].low = 900
    /\ last_liquidity_sweep # NoSweep
    /\ last_liquidity_sweep.type = "bullish"
    /\ last_liquidity_sweep.price = 1000
    /\ last_liquidity_sweep.candle_index = 24

\* the trader objects the run_trader thread of pair holds before or after a
\* step
TradersOf(pair) ==
    {run_trader[pair].trader, run_trader'[pair].trader} \ {NoTrader}

\* C19: the engine state of one pair's trader (position_open, position_type,
\* stop_loss, active_fvgs, valid_entries, trade_history) is written only by
\* that pair's own run_trader thread, never by the thread of another pair or
\* by the status updater, in every interleaving.
C19_OnlyOwnThreadWrites ==
    [][\A pair \in Pairs : \A o \in TradersOf(pair) :
          objects'[o] # objects[o] => RunTraderStep(pair)]_vars

\* both pairs' traders hold a position in objects of their own while the
\* status updater is in the middle of its loop, holding the lock, with the
\* first pair read before its position was opened
C19_Witness ==
    /\ trader_lock = "status"
    /\ bot_status_updater.visited = {"BTCUSDT"}
    /\ pair_status["BTCUSDT"] # NoStatus
    /\ ~pair_status["BTCUSDT"].position_open
    /\ run_trader["BTCUSDT"].trader # NoTrader
    /\ run_trader["ETHUSDT"].trader # NoTrader
    /\ run_trader["BTCUSDT"].trader # run_trader["ETHUSDT"].trader
    /\ objects[run_trader["BTCUSDT"].trader].position_open
    /\ objects[run_trader["ETHUSDT"].trader].position_open
    /\ run_trader["ETHUSDT"].pc = "update"

\* the candidates the data_process call of a manager() call finds right after
\* the step, the position being flat
ManagerEntriesAfterStep ==
    data_process(df', htf_df', active_fvgs', htf_bias', position_open',
                 valid_entries', min_fvg_size').entries

\* C21: in one iteration of the trading loop, when update() has taken in a
\* new candle, no position is open and its check_fvg_retests has found a
\* retest, the manager() call that follows on the same window enters on that
\* candidate: it finds it again and places the order on it.
C21_RetestEnteredInSameIteration ==
    [][(/\ fed' = fed + 1
        /\ ~position_open'
        /\ active_fvgs' # <<>>
        /\ valid_entries' # <<>>)
         => /\ ManagerEntriesAfterStep # <<>>
            /\ ManagerEntriesAfterStep[1] = valid_entries'[1]]_vars

\* C23: manager() opens a position only from a candidate that
\* check_fvg_retests has computed on the current candle during that same
\* call: the order goes out at the current close, on an FVG that was not
\* retested before the call and is after it.
C23_EntryFromFreshCandidate ==
    [][(~position_open /\ exec' # "none")
         => /\ entry_price' = RInt(df'[Len(df')].close)
            /\ \E n \in 1..Len(active_fvgs') :
                  /\ active_fvgs'[n].created_time = valid_entries'[1].fvg
                  /\ active_fvgs'[n].retested
                  /\ n <= Len(active_fvgs)
                  /\ ~active_fvgs[n].retested]_vars

\* C24: update_active_fvgs removes a filled FVG as soon as 20 intervals of
\* the trading timeframe have passed since its creation, and never removes
\* an unfilled one.
C24_FilledRemovedAfterTwentyIntervals ==
    [][fed' = fed + 1
         => /\ \A n \in 1..Len(active_fvgs') :
                  active_fvgs'[n].filled
                    => df'[Len(df')].t - active_fvgs'[n].created_time
                         < 20 * get_interval_seconds
            /\ \A n \in 1..Len(active_fvgs) :
                  ~MarkFilled(active_fvgs[n], df'[Len(df')]).filled
                    => \E m \in 1..Len(active_fvgs') :
                          /\ active_fvgs'[m].created_time = active_fvgs[n].created_time
                          /\ active_fvgs'[m].type = active_fvgs[n].type]_vars

\* C27: at any time at most one record of trade_history is not closed, that
\* record is the last one, and it exists exactly when position_open is True;
\* a record is appended only when all records before it are closed.
C27_OnlyLastRecordOpen ==
    /\ [](/\ \A n \in 1..Len(trade_history) :
                trade_history[n].status # "closed" => n = Len(trade_history)
          /\ position_open
               <=> /\ trade_history # <<>>
                   /\ trade_history[Len(trade_history)].status # "closed")
    /\ [][Len(trade_history') > Len(trade_history)
            => /\ SubSeq(trade_history', 1, Len(trade_history)) = trade_history
               /\ \A n \in 1..Len(trade_history) :
                     trade_history[n].status = "closed"]_vars

\* a short is open as the second record, after a first trade that was closed
\* with its exit data
C27_Witness ==
    /\ Len(trade_history) = 2
    /\ position_open
    /\ position_type = "short"
    /\ trade_history[1].status = "closed"
    /\ trade_history[1].exit_price # Zero
    /\ trade_history[2].status # "closed"
    /\ trade_history[2].type = "short"

\* the displacement and gap conditions on three candles, for a sweep type
GapAfterSweep(type, c1, c2, c3) ==
    \/ /\ type = "bullish"
       /\ c2.close > c2.open
       /\ (c2.close - c2.open) * 1000 > c2.open
       /\ c3.low > c1.high
       /\ (c3.low - c1.high) * 1000 > c1.high
    \/ /\ type = "bearish"
       /\ c2.close < c2.open
       /\ (c2.open - c2.close) * 1000 > c2.open
       /\ c3.high < c1.low
       /\ (c1.low - c3.high) * 1000 > c1.low

\* an FVG of the sweep's type between the sweep candle c1 and c3 is listed
FvgListed(fvgs, type, c1, c3) ==
    \E n \in 1..Len(fvgs) :
        /\ fvgs[n].type = type
        /\ fvgs[n].created_at = c3.t
        /\ fvgs[n].top = IF type = "bullish" THEN c3.low ELSE c1.low
        /\ fvgs[n].bottom = IF type = "bullish" THEN c1.high ELSE c3.high

\* C22: after a sweep was recorded at candle s and stays the recorded one,
\* the update that takes in candle s + 2 with the biases aligned reads the
\* candles s, s + 1 and s + 2 and lists the FVG when the displacement and gap
\* conditions hold on them, whether the window is still growing or slides.
C22_FvgAfterSweepFound ==
    [][(/\ enhanced_fed' = enhanced_fed + 1
        /\ last_liquidity_sweep # NoSweep
        /\ last_liquidity_sweep' = last_liquidity_sweep
        /\ daily_bias' = enhanced_htf_bias'
        /\ ltf_df'[Len(ltf_df') - 2].t = last_liquidity_sweep.time
        /\ GapAfterSweep(last_liquidity_sweep.type, ltf_df'[Len(ltf_df') - 2],
                         ltf_df'[Len(ltf_df') - 1], ltf_df'[Len(ltf_df')]))
         => FvgListed(enhanced_active_fvgs', last_liquidity_sweep.type,
                      ltf_df'[Len(ltf_df') - 2], ltf_df'[Len(ltf_df')])]_vars

\* C25: once is_running is False it becomes True again only by a served
\* /api/toggle request, and no run_trader thread calls update() or manager()
\* while it is False.
C25_StoppedUntilToggled ==
    [][/\ (~bot_status.is_running /\ bot_status'.is_running)
             => toggles' = toggles + 1
       /\ \A pair \in Pairs :
             (unified_run_trader[pair] \in {"update", "manager"}
              /\ unified_run_trader'[pair] # unified_run_trader[pair])
                 => bot_status.is_running]_vars

\* C26: no thread ever waits for _lock while it holds _lock itself (such a
\* wait never ends: nobody else can release the lock), so every block that
\* was entered is left and the other threads get the lock in the end.
C26_NoThreadWaitsForItsOwnLock ==
    \A thread \in Threads :
        ~(thread_at[thread] \in LockStatements /\ bot_lock = thread)

\* the set of the entries of a list
Entries(l) == {l[i] : i \in 1..Len(l)}

\* the n newest of the stored entries that match a filter
NewestMatching(l, category, status, n) ==
    Entries(LastSlice(Filtered(l, category, status), n))

\* C28: when more stored entries match the filter than the limit n, get_logs
\* returns the n newest matching entries and none of the older ones.
C28_ReturnsNewestEntries ==
    [][(/\ returned' # returned
        /\ Len(Filtered(logs, returned'.category, returned'.status)) > returned'.limit)
         => Entries(returned'.result)
              = NewestMatching(logs, returned'.category, returned'.status,
                               returned'.limit)]_vars

\* C29: take_trade is True only if the time is inside a New York kill zone,
\* a market-structure shift was found after a detected liquidity sweep, its
\* direction is the daily bias, the 4H or the 1H bias is the daily bias, and
\* stop loss and take profit are both set; trade_direction is BUY or SELL
\* exactly when take_trade is True and "None" otherwise, also on an error.
C29_TradeOnlyWhenAllConditionsHold ==
    ict_result # NoAnalysis =>
        /\ ict_result.take_trade =>
              /\ \/ (25200 <= ict_input.now /\ ict_input.now <= 36000)
                 \/ (50400 <= ict_input.now /\ ict_input.now <= 57600)
              /\ ict_input.liquidity_sweep # "No Sweep"
              /\ \/ /\ ict_result.market_structure_shift = "Bullish MSS"
                    /\ ict_input.daily_bias = "Bullish"
                 \/ /\ ict_result.market_structure_shift = "Bearish MSS"
                    /\ ict_input.daily_bias = "Bearish"
              /\ \/ ict_input.bias_4h = ict_input.daily_bias
                 \/ ict_input.bias_1h = ict_input.daily_bias
              /\ ict_result.stop_loss # NoLevel
              /\ ict_result.take_profit # NoLevel
        /\ ict_result.trade_direction \in {"BUY", "SELL", "None"}
        /\ ict_result.trade_direction \in {"BUY", "SELL"} <=> ict_result.take_trade
        /\ ict_input.raises =>
              ~ict_result.take_trade /\ ict_result.trade_direction = "None"

\* a sell is taken on a bearish shift in the afternoon kill zone
C29_Witness ==
    /\ ict_result # NoAnalysis
    /\ ict_result.take_trade
    /\ ict_result.trade_direction = "SELL"
    /\ ict_result.market_structure_shift = "Bearish MSS"
    /\ ict_input.now = 57600

\* a position is held: the last recorded trade is a buy
Held(t) == t # <<>> /\ t[Len(t)] = "buy"

\* C30: in a backtest of a fresh client a buy is recorded only when no
\* position is held, the sell branch is taken only when one is held (it
\* then records the sell and never fails), and the recorded trades
\* alternate beginning with a buy.
C30_TradesAlternateFromBuy ==
    /\ [](\A k \in 1..Len(trades) :
              trades[k] = IF k % 2 = 1 THEN "buy" ELSE "sell")
    /\ [][backtest_rows' = backtest_rows + 1
            => /\ (Len(trades') > Len(trades) /\ trades'[Len(trades')] = "buy")
                     => ~Held(trades)
               /\ ((Len(trades') > Len(trades) /\ trades'[Len(trades')] = "sell")
                   \/ backtest_status' = "raised")
                     => Held(trades)]_vars

====
